---- MODULE Spec2Model ----
(***************************************************************************)
(* A model of the HRI autism backend: the spreadsheet-backed repository    *)
(* (src/repositories/sheets_repo.py) and the domain services built on it   *)
(* (src/services/*.py).  A worksheet is a sequence of rows, a row is a     *)
(* sequence of string cells, row 1 is the header row.  Every gspread call  *)
(* (col_values, row_values, append_row, update, get_all_records) is one    *)
(* atomic step against the remote sheet.                                   *)
(***************************************************************************)
EXTENDS Integers, Sequences, FiniteSets, TLC

VARIABLES
    sheets,   \* worksheet name -> rows of the remote spreadsheet
    clock,    \* last reading of the wall clock, in sub-second ticks
    uuids,    \* number of uuid4() values drawn so far
    loop,     \* request that holds the event-loop thread (0: the loop is free)
    op,       \* per request: the operation it runs
    pc,       \* per request: its position in the operation
    arg,      \* per request: the arguments of the operation
    loc,      \* per request: the local variables of the operation
    ret       \* per request: what the operation returned or raised

vars == <<sheets, clock, uuids, loop, op, pc, arg, loc, ret>>

----------------------------------------------------------------------------
(* Bounds of the model *)

MaxReqs == 3        \* requests in one behaviour
MaxChildReqs == 2   \* of them, requests to the children and sessions services
MaxClock == 3       \* last clock tick a behaviour reaches

Reqs == 1..MaxReqs

(* Sub-second clock ticks in one second: to_isoformat drops them. *)
TicksPerSec == 2

----------------------------------------------------------------------------
(* Strings *)

Char(s, i) == SubSeq(s, i, i)

RECURSIVE LStrip(_)
LStrip(s) ==
    IF Len(s) > 0 /\ Char(s, 1) = " " THEN LStrip(SubSeq(s, 2, Len(s))) ELSE s

RECURSIVE RStrip(_)
RStrip(s) ==
    IF Len(s) > 0 /\ Char(s, Len(s)) = " "
    THEN RStrip(SubSeq(s, 1, Len(s) - 1)) ELSE s

(* str.strip() *)
Strip(s) == RStrip(LStrip(s))

UpperChars == "ABCDEFGHIJKLMNOPQRSTUVWXYZ"
LowerChars == "abcdefghijklmnopqrstuvwxyz"

LowerChar(c) ==
    IF \E i \in 1..Len(UpperChars) : Char(UpperChars, i) = c
    THEN LET i == CHOOSE i \in 1..Len(UpperChars) : Char(UpperChars, i) = c
         IN Char(LowerChars, i)
    ELSE c

(* str.lower() *)
RECURSIVE Lower(_)
Lower(s) ==
    IF Len(s) = 0 THEN "" ELSE LowerChar(Char(s, 1)) \o Lower(SubSeq(s, 2, Len(s)))

(* str.replace(" ", "_") *)
RECURSIVE ReplaceSpaces(_)
ReplaceSpaces(s) ==
    IF Len(s) = 0 THEN ""
    ELSE (IF Char(s, 1) = " " THEN "_" ELSE Char(s, 1))
           \o ReplaceSpaces(SubSeq(s, 2, Len(s)))

(* str.split(delimiter): "" gives <<"">>, "a,,b" gives <<"a", "", "b">> *)
RECURSIVE Split(_, _)
Split(s, delimiter) ==
    LET hits == {i \in 1..Len(s) : Char(s, i) = delimiter}
    IN IF hits = {} THEN <<s>>
       ELSE LET i == CHOOSE i \in hits : \A j \in hits : i <= j
            IN <<SubSeq(s, 1, i - 1)>> \o Split(SubSeq(s, i + 1, Len(s)), delimiter)

(* delimiter.join(tokens) *)
RECURSIVE Join(_, _)
Join(tokens, delimiter) ==
    IF Len(tokens) = 0 THEN ""
    ELSE IF Len(tokens) = 1 THEN tokens[1]
    ELSE tokens[1] \o delimiter \o Join(Tail(tokens), delimiter)

Pad2(n) == IF n < 10 THEN "0" \o ToString(n) ELSE ToString(n)

DigitVal(c) == CHOOSE d \in 0..9 : ToString(d) = c

(* utc_now(): a reading of the wall clock, never before the last reading *)
NowChoices == {t \in {clock, clock + 1} : t <= MaxClock}

(* to_isoformat(dt): UTC, microsecond=0, "+00:00" replaced by "Z" *)
ToIsoformat(dt) ==
    LET s == dt \div TicksPerSec
    IN "2025-01-01T" \o Pad2((s \div 3600) % 24) \o ":" \o Pad2((s \div 60) % 60)
         \o ":" \o Pad2(s % 60) \o "Z"

(* from_isoformat(value): back to a datetime (ticks of the UTC instant); a    *)
(* fraction of a second and an offset are read when the text has them, "Z"    *)
(* and no offset both mean UTC                                                *)
FromIsoformat(value) ==
    LET two(i) == 10 * DigitVal(Char(value, i)) + DigitVal(Char(value, i + 1))
        fraction == Len(value) >= 20 /\ Char(value, 20) = "."
        micro == IF fraction
                 THEN 10000 * two(21) + 100 * two(23) + two(25)
                 ELSE 0
        rest == IF fraction THEN 27 ELSE 20
        offset == IF rest > Len(value) THEN 0
                  ELSE IF Char(value, rest) = "Z" THEN 0
                  ELSE (IF Char(value, rest) = "-" THEN 0 - 1 ELSE 1)
                         * (two(rest + 1) * 3600 + two(rest + 4) * 60)
    IN (two(12) * 3600 + two(15) * 60 + two(18) - offset) * TicksPerSec
         + (micro * TicksPerSec + 999999) \div 1000000

(* uuid4(): the n-th value drawn; distinct draws give distinct values *)
Uuid4(n) == "uuid-" \o ToString(n)

----------------------------------------------------------------------------
(* Column lists *)

CHILDREN_HEADERS ==
    <<"child_id", "nickname", "age", "comm_level", "personality",
      "triggers_raw", "triggers", "interests_raw", "interests",
      "target_skills_raw", "target_skills", "created_at", "updated_at">>

SESSIONS_HEADERS ==
    <<"session_id", "child_id", "mood", "environment", "situation",
      "prompt", "created_at">>

USERS_HEADERS ==
    <<"user_id", "email", "password_hash", "full_name", "role",
      "created_at", "updated_at", "last_login_at">>

USER_CHILDREN_HEADERS == <<"user_id", "child_id", "created_at">>

SheetNames == {"children", "sessions", "users", "user_children"}

Headers(name) ==
    CASE name = "children" -> CHILDREN_HEADERS
      [] name = "sessions" -> SESSIONS_HEADERS
      [] name = "users" -> USERS_HEADERS
      [] name = "user_children" -> USER_CHILDREN_HEADERS

Range(seq) == {seq[i] : i \in 1..Len(seq)}

----------------------------------------------------------------------------
(* Record codec *)

(* _serialize_row: one cell per header, "" for a header the record lacks *)
SerializeRow(headers, record) ==
    [i \in 1..Len(headers) |->
        IF headers[i] \in DOMAIN record THEN record[headers[i]] ELSE ""]

(* _deserialize_row: pad with "" up to the header count, zip with headers *)
DeserializeRow(headers, row_values) ==
    [h \in Range(headers) |->
        LET idx == CHOOSE i \in 1..Len(headers) : headers[i] = h
        IN IF idx <= Len(row_values) THEN row_values[idx] ELSE ""]

(* a merge in which the record's own values win over the updates *)
DictUpdateKeep(record, updates) ==
    [k \in DOMAIN record \cup DOMAIN updates |->
        IF k \in DOMAIN record THEN record[k] ELSE updates[k]]

(* dict.update: the keys of updates override, the others are kept *)
DictUpdate(record, updates) ==
    [k \in DOMAIN record \cup DOMAIN updates |->
        IF k \in DOMAIN updates THEN updates[k] ELSE record[k]]

----------------------------------------------------------------------------
(* The worksheet calls of gspread *)

(* Worksheet.col_values(col): the cells of one column, top to bottom *)
ColValues(ws, col) == [i \in 1..Len(ws) |-> ws[i][col]]

RECURSIVE TrimTrailing(_)
TrimTrailing(row) ==
    IF Len(row) > 0 /\ row[Len(row)] = ""
    THEN TrimTrailing(SubSeq(row, 1, Len(row) - 1)) ELSE row

(* Worksheet.row_values(row): the cells of one row, trailing empty cells cut *)
RowValues(ws, row_index) == TrimTrailing(ws[row_index])

(* the row inserted right under the header, the rows below it moving down *)
AppendRowTop(ws, row) == <<ws[1], row>> \o SubSeq(ws, 2, Len(ws))

(* the row written over the last data row when there is one *)
AppendRowOverwrite(ws, row) ==
    IF Len(ws) > 1 THEN [ws EXCEPT ![Len(ws)] = row] ELSE Append(ws, row)

(* Worksheet.append_row(row): the row becomes the last row of the sheet *)
AppendRow(ws, row) == Append(ws, row)

(* Worksheet.update("A{r}:{letter}{r}", [new_row]): cells 1..Len(new_row) of row r *)
UpdateRange(ws, row_index, new_row) ==
    [ws EXCEPT ![row_index] =
        [i \in 1..Len(@) |-> IF i <= Len(new_row) THEN new_row[i] ELSE @[i]]]

(* Worksheet.get_all_records(): the data rows as records keyed by the header row *)
GetAllRecords(ws) ==
    [i \in 1..(Len(ws) - 1) |-> DeserializeRow(ws[1], ws[i + 1])]

----------------------------------------------------------------------------
(* Row locator *)

(* the locator's "no row": Python's None where a row index is expected *)
NoRow == 0

(* an absent Optional[record], and a present one *)
None == <<>>
Some(record) == <<record>>

(* the scan returning the last index it looked at when nothing matched *)
FirstMatchLeak(column_values, value) ==
    LET hits == {idx \in 1..Len(column_values) : column_values[idx] = value}
    IN IF hits = {} THEN Len(column_values)
       ELSE CHOOSE idx \in hits : \A j \in hits : idx <= j

(* the scan going on after a match, so that the last match is returned *)
FirstMatchLast(column_values, value) ==
    LET hits == {idx \in 1..Len(column_values) : column_values[idx] = value}
    IN IF hits = {} THEN NoRow ELSE CHOOSE idx \in hits : \A j \in hits : idx >= j

(* for idx, value in enumerate(column_values, start=1): the loop from idx on *)
RECURSIVE ScanFrom(_, _, _)
ScanFrom(column_values, value, idx) ==
    IF idx > Len(column_values) THEN NoRow
    ELSE IF column_values[idx] = value THEN idx
    ELSE ScanFrom(column_values, value, idx + 1)

(* the first index of column_values whose cell equals value, or NoRow *)
FirstMatch(column_values, value) == ScanFrom(column_values, value, 1)

(* _find_row_by_id: scan of column 1 *)
FindRowById(ws, identifier) == FirstMatch(ColValues(ws, 1), identifier)

(* the column scan comparing without regard to letter case *)
FindRowByColumnLower(ws, column_index, value) ==
    FirstMatch([i \in 1..Len(ws) |-> Lower(ws[i][column_index])], Lower(value))

(* _find_row_by_column: the same scan over any column *)
FindRowByColumn(ws, column_index, value) ==
    FirstMatch(ColValues(ws, column_index), value)

----------------------------------------------------------------------------
(* Password hashing (common/security.py) *)

PASSWORD_MIN == 8

(* the bcrypt digest of a string: equal digests verify, others do not *)
Bcrypt(s) == "$2b$" \o s

(* the length tested on the password as given, without strip() *)
HashPasswordOkUnstripped(plain_password) == Len(plain_password) >= PASSWORD_MIN

(* hash_password: strip, reject fewer than 8 characters, digest *)
HashPasswordOk(plain_password) == Len(Strip(plain_password)) >= PASSWORD_MIN
HashPassword(plain_password) == Bcrypt(Strip(plain_password))

(* verification that strips the raw password as hashing does *)
VerifyPasswordStripped(plain_password, hashed_password) ==
    Bcrypt(Strip(plain_password)) = hashed_password

(* verify_password: the raw password against the stored digest *)
VerifyPassword(plain_password, hashed_password) ==
    Bcrypt(plain_password) = hashed_password

----------------------------------------------------------------------------
(* Users table (repository) *)

(* get_user_by_email: locate by column 2, read the row, deserialize *)
GetUserByEmail(ws, email) ==
    LET row_index == FindRowByColumn(ws, 2, email)
    IN IF row_index = NoRow THEN None
       ELSE Some(DeserializeRow(USERS_HEADERS, RowValues(ws, row_index)))

(* get_user_by_id: locate by column 1, read the row, deserialize *)
GetUserById(ws, user_id) ==
    LET row_index == FindRowById(ws, user_id)
    IN IF row_index = NoRow THEN None
       ELSE Some(DeserializeRow(USERS_HEADERS, RowValues(ws, row_index)))

----------------------------------------------------------------------------
(* Requests *)

Emails == {"a@x.com", "A@x.com"}
Passwords == {"longenough", " longenough", "  short  "}

RegisterPayloads ==
    [email : Emails, password : Passwords, full_name : {"A"}, role : {"parent"}]
LoginPayloads == [email : Emails, password : Passwords]

NoRet == [kind |-> "none"]
Ok(value) == [kind |-> "ok", value |-> value]
Raised(error, message) == [kind |-> "error", error |-> error, message |-> message]

(* UUID.hex: the dashes dropped *)
RECURSIVE Hex(_)
Hex(u) ==
    IF Len(u) = 0 THEN ""
    ELSE (IF Char(u, 1) = "-" THEN "" ELSE Char(u, 1)) \o Hex(SubSeq(u, 2, Len(u)))

(* create_access_token: the claims the signed token carries *)
CreateAccessToken(user_id, email, role) ==
    [sub |-> user_id, email |-> email, role |-> role]

(* a user view that leaves last_login_at unset *)
BuildUserOutNoLogin(record) ==
    [user_id |-> record["user_id"],
     email |-> record["email"],
     full_name |-> record["full_name"],
     role |-> record["role"],
     created_at |-> FromIsoformat(record["created_at"]),
     updated_at |-> FromIsoformat(record["updated_at"]),
     last_login_at |-> None]

(* AuthService._build_user_out *)
BuildUserOut(record) ==
    [user_id |-> record["user_id"],
     email |-> record["email"],
     full_name |-> record["full_name"],
     role |-> record["role"],
     created_at |-> FromIsoformat(record["created_at"]),
     updated_at |-> FromIsoformat(record["updated_at"]),
     last_login_at |-> IF record["last_login_at"] # ""
                       THEN Some(FromIsoformat(record["last_login_at"]))
                       ELSE None]

(* AuthTokens(access_token=token, user=user_out) *)
AuthTokens(user_out) ==
    [access_token |-> CreateAccessToken(Hex(user_out.user_id), user_out.email,
                                        user_out.role),
     token_type |-> "bearer",
     user |-> user_out]

(* every service handing its spreadsheet calls to worker threads *)
OffloadedAll(service) == TRUE

(* Which services hand their spreadsheet calls to asyncio.to_thread.  The auth *)
(* service calls the repository directly, on the event-loop thread.            *)
Offloaded(service) == service \in {"children", "sessions"}

(* A request may take an event-loop step when no other request holds the loop *)
LoopFree(r) == loop \in {0, r}

(* requests arrive in the order of their numbers *)
CanStart(r) == pc[r] = "idle" /\ (IF r = 1 THEN TRUE ELSE pc[r - 1] # "idle")

CanStartChild(r) == CanStart(r) /\ r <= MaxChildReqs

Finish(r, result) ==
    /\ pc' = [pc EXCEPT ![r] = "done"]
    /\ ret' = [ret EXCEPT ![r] = result]

----------------------------------------------------------------------------
(* AuthService.register *)

(* lines 21-23: the email lookup, and the rejection of a registered email *)
RegisterStart(r, payload) ==
    /\ CanStart(r) /\ LoopFree(r)
    /\ op' = [op EXCEPT ![r] = "register"]
    /\ arg' = [arg EXCEPT ![r] = payload]
    /\ LET existing == GetUserByEmail(sheets["users"], payload.email)
       IN IF existing # None
          THEN /\ Finish(r, Raised("ValidationError", "Email is already registered."))
               /\ UNCHANGED loop
          ELSE /\ pc' = [pc EXCEPT ![r] = "register_create"]
               /\ loop' = IF Offloaded("auth") THEN 0 ELSE r
               /\ UNCHANGED ret
    /\ UNCHANGED <<sheets, clock, uuids, loc>>

(* lines 25-46: uuid4, utc_now, hash_password, create_user, the token *)
RegisterCreate(r) ==
    /\ pc[r] = "register_create" /\ op[r] = "register" /\ LoopFree(r)
    /\ \E now \in NowChoices :
        LET payload == arg[r]
            user_id == Uuid4(uuids + 1)
            iso_now == ToIsoformat(now)
            record == [user_id |-> user_id,
                       email |-> payload.email,
                       password_hash |-> HashPassword(payload.password),
                       full_name |-> payload.full_name,
                       role |-> payload.role,
                       created_at |-> iso_now,
                       updated_at |-> iso_now,
                       last_login_at |-> iso_now]
        IN /\ uuids' = uuids + 1
           /\ clock' = now
           /\ IF ~HashPasswordOk(payload.password)
              THEN /\ Finish(r, Raised("ValidationError",
                                       "Password must be at least 8 characters long."))
                   /\ UNCHANGED sheets
              ELSE /\ sheets' = [sheets EXCEPT !["users"] =
                                  AppendRow(@, SerializeRow(USERS_HEADERS, record))]
                   /\ Finish(r, Ok(AuthTokens(BuildUserOut(record))))
    /\ loop' = 0
    /\ UNCHANGED <<op, arg, loc>>

----------------------------------------------------------------------------
(* SheetsRepository.update_user / update_child: read-modify-write in three    *)
(* worksheet calls.  loc[r] holds the sheet, the id, the updates and the      *)
(* method's locals row_index and current_values.                              *)

(* the auth service runs its repository calls on the loop it holds *)
RunsWhere(r) == op[r] \in {"register", "login"} => LoopFree(r)

ReleaseLoop(r) == loop' = IF loop = r THEN 0 ELSE loop

(* lines 238-240 / 162-164: _find_row_by_id, NotFoundError when no row matches *)
UpdateFind(r) ==
    /\ pc[r] = "update_find" /\ RunsWhere(r)
    /\ LET row_index == FindRowById(sheets[loc[r].sheet], loc[r].id)
       IN IF row_index = NoRow
          THEN /\ Finish(r, Raised("NotFoundError", "not found"))
               /\ ReleaseLoop(r)
               /\ UNCHANGED loc
          ELSE /\ loc' = [loc EXCEPT ![r] =
                            [sheet |-> @.sheet, id |-> @.id, updates |-> @.updates,
                             row_index |-> row_index]]
               /\ pc' = [pc EXCEPT ![r] = "update_read"]
               /\ UNCHANGED <<ret, loop>>
    /\ UNCHANGED <<sheets, clock, uuids, op, arg>>

(* lines 242 / 166: current_values = worksheet.row_values(row_index) *)
UpdateRead(r) ==
    /\ pc[r] = "update_read" /\ RunsWhere(r)
    /\ loc' = [loc EXCEPT ![r] =
                 [sheet |-> @.sheet, id |-> @.id, updates |-> @.updates,
                  row_index |-> @.row_index,
                  current_values |-> RowValues(sheets[@.sheet], @.row_index)]]
    /\ pc' = [pc EXCEPT ![r] = "update_write"]
    /\ UNCHANGED <<sheets, clock, uuids, loop, op, arg, ret>>

(* lines 243-245 / 167-169: deserialize, dict.update, serialize *)
MergedRecord(headers, current_values, updates) ==
    DictUpdate(DeserializeRow(headers, current_values), updates)

(* the merged row written as a new last row instead of over the row it was read from *)
WriteBackAppend(ws, row_index, headers, current_record) ==
    Append(ws, SerializeRow(headers, current_record))

(* lines 247-248 / 171-172: the whole row range is written back *)
WriteBack(ws, row_index, headers, current_record) ==
    UpdateRange(ws, row_index, SerializeRow(headers, current_record))

(* what the caller of update_* makes of the returned record *)
UpdateResult(r, current_record) ==
    IF op[r] = "login" THEN AuthTokens(BuildUserOut(current_record))
    ELSE current_record

(* update_* writing only the cells its updates name, not the whole row range *)
UpdateWriteCells(r) ==
    /\ pc[r] = "update_write" /\ RunsWhere(r)
    /\ LET headers == Headers(loc[r].sheet)
           current_record ==
               MergedRecord(headers, loc[r].current_values, loc[r].updates)
       IN /\ sheets' = [sheets EXCEPT ![loc[r].sheet][loc[r].row_index] =
                [i \in 1..Len(@) |->
                    IF headers[i] \in DOMAIN loc[r].updates
                    THEN loc[r].updates[headers[i]] ELSE @[i]]]
          /\ Finish(r, Ok(UpdateResult(r, current_record)))
    /\ ReleaseLoop(r)
    /\ UNCHANGED <<clock, uuids, op, arg, loc>>

(* lines 243-249 / 167-173, and for login lines 62-68 of auth_service.py *)
UpdateWrite(r) ==
    /\ pc[r] = "update_write" /\ RunsWhere(r)
    /\ LET headers == Headers(loc[r].sheet)
           current_record ==
               MergedRecord(headers, loc[r].current_values, loc[r].updates)
       IN /\ sheets' = [sheets EXCEPT ![loc[r].sheet] =
                          WriteBack(@, loc[r].row_index, headers, current_record)]
          /\ Finish(r, Ok(UpdateResult(r, current_record)))
    /\ ReleaseLoop(r)
    /\ UNCHANGED <<clock, uuids, op, arg, loc>>

----------------------------------------------------------------------------
(* AuthService.login *)

(* lines 49-60: lookup, password check, utc_now, the call of update_user *)
LoginStart(r, payload) ==
    /\ CanStart(r) /\ LoopFree(r)
    /\ op' = [op EXCEPT ![r] = "login"]
    /\ arg' = [arg EXCEPT ![r] = payload]
    /\ LET found == GetUserByEmail(sheets["users"], payload.email)
       IN IF found = None
          THEN /\ Finish(r, Raised("NotFoundError", "User not found."))
               /\ UNCHANGED <<loc, clock, loop>>
          ELSE LET record == found[1]
               IN IF ~VerifyPassword(payload.password, record["password_hash"])
                  THEN /\ Finish(r, Raised("ValidationError", "Invalid credentials."))
                       /\ UNCHANGED <<loc, clock, loop>>
                  ELSE \E now \in NowChoices :
                         LET iso_now == ToIsoformat(now)
                         IN /\ clock' = now
                            /\ loc' = [loc EXCEPT ![r] =
                                  [sheet |-> "users", id |-> record["user_id"],
                                   updates |-> [last_login_at |-> iso_now,
                                                updated_at |-> iso_now]]]
                            /\ pc' = [pc EXCEPT ![r] = "update_find"]
                            /\ loop' = IF Offloaded("auth") THEN 0 ELSE r
                            /\ UNCHANGED ret
    /\ UNCHANGED <<sheets, uuids>>

----------------------------------------------------------------------------
(* Keyword processing (common/keyword_processor.py) *)

KEYWORD_DELIMITER == ","
KEYWORD_MIN == 1
KEYWORD_MAX == 7

(* _normalize_tokens: strip, lower, spaces to "_", drop empty, drop repeats *)
RECURSIVE NormalizeFrom(_, _)
NormalizeFrom(tokens, normalized) ==
    IF Len(tokens) = 0 THEN normalized
    ELSE LET cleaned == ReplaceSpaces(Lower(Strip(tokens[1])))
         IN IF cleaned = "" \/ cleaned \in Range(normalized)
            THEN NormalizeFrom(Tail(tokens), normalized)
            ELSE NormalizeFrom(Tail(tokens), Append(normalized, cleaned))

(* the tokens cleaned and the empty ones dropped, repeats kept *)
NormalizeTokensRepeats(tokens) ==
    SelectSeq([i \in 1..Len(tokens) |-> ReplaceSpaces(Lower(Strip(tokens[i])))],
              LAMBDA cleaned : cleaned # "")

NormalizeTokens(tokens) == NormalizeFrom(tokens, <<>>)

(* _validate_token_count: no ValidationError *)
ValidTokenCount(tokens) == KEYWORD_MIN <= Len(tokens) /\ Len(tokens) <= KEYWORD_MAX

(* the count checked on the fragments as given, before they are normalized *)
FormatKeywordsOkRaw(tokens) == ValidTokenCount(tokens)

(* format_keywords: whether it returns, and what *)
FormatKeywordsOk(tokens) == ValidTokenCount(NormalizeTokens(tokens))
FormatKeywords(tokens) == Join(NormalizeTokens(tokens), KEYWORD_DELIMITER)

(* the raw text tested as given, without strip() *)
RawTextOkUnstripped(raw_text) == raw_text # ""

(* KeywordProcessor.process, line 63-67: the raw text is not blank *)
RawTextOk(raw_text) == Strip(raw_text) # ""

(* KeywordProcessor._parse_response: split, keep the non-blank fragments *)
ParseResponse(response) ==
    SelectSeq(Split(response, KEYWORD_DELIMITER), LAMBDA token : Strip(token) # "")

----------------------------------------------------------------------------
(* ChildrenService.create_child *)

GoodChild ==
    [nickname |-> "Kai", age |-> 7, comm_level |-> "low", personality |-> "shy",
     triggers_raw |-> "loud noises", interests_raw |-> "trains",
     target_skills_raw |-> "sharing"]

(* the payloads of create child: a complete one, and one with a blank raw text *)
ChildPayloads == {GoodChild, [GoodChild EXCEPT !.interests_raw = " "]}

(* the users on whose behalf children are created *)
UserIds == {"user-1", "user-2"}

(* what the keyword model may answer to the request of a label, besides failing *)
KeywordResponses(label) ==
    CASE label = "triggers" -> {"Loud Noise, crowds,loud noise", ""}
      [] label = "interests" -> {"Trains", ""}
      [] label = "target_skills" -> {"sharing,Turn Taking", ""}

(* KeywordProcessor.process lines 69-72 on each answer: no keywords when       *)
(* _parse_response or format_keywords raises ValidationError                   *)
Processed ==
    [response \in UNION {KeywordResponses(l) : l \in {"triggers", "interests",
                                                       "target_skills"}} |->
        LET tokens == ParseResponse(response)
        IN IF response = "" \/ ~FormatKeywordsOk(tokens) THEN None
           ELSE Some(FormatKeywords(tokens))]

(* lines 35-39: the three requests, in the order generate_keywords runs them *)
KeywordRequests(payload) ==
    <<[label |-> "triggers", raw_text |-> payload.triggers_raw],
      [label |-> "interests", raw_text |-> payload.interests_raw],
      [label |-> "target_skills", raw_text |-> payload.target_skills_raw]>>

(* the ownership link written before the children row *)
CreateChildStepsSwapped == <<"link_user_child", "create_child">>

(* lines 59-67: the two awaited repository calls, in program order *)
CreateChildSteps == <<"create_child", "link_user_child">>

(* the position after step label: the next repository call, or the return *)
AfterStep(label) ==
    LET i == CHOOSE i \in 1..Len(CreateChildSteps) : CreateChildSteps[i] = label
    IN IF i < Len(CreateChildSteps) THEN CreateChildSteps[i + 1] ELSE "return"

(* lines 42-56: the children record *)
ChildRecord(payload, child_uuid, iso_now, keywords) ==
    [child_id |-> child_uuid,
     nickname |-> payload.nickname,
     age |-> ToString(payload.age),
     comm_level |-> payload.comm_level,
     personality |-> payload.personality,
     triggers_raw |-> payload.triggers_raw,
     triggers |-> keywords[1],
     interests_raw |-> payload.interests_raw,
     interests |-> keywords[2],
     target_skills_raw |-> payload.target_skills_raw,
     target_skills |-> keywords[3],
     created_at |-> iso_now,
     updated_at |-> iso_now]

(* lines 62-66: the ownership link record *)
LinkRecord(user_id, child_uuid, iso_now) ==
    [user_id |-> user_id, child_id |-> child_uuid, created_at |-> iso_now]

(* a response carrying the raw texts in place of the keywords *)
ChildCreateResponseRaw(payload, child_uuid, now, keywords) ==
    [child_id |-> child_uuid, nickname |-> payload.nickname, age |-> payload.age,
     triggers |-> payload.triggers_raw, interests |-> payload.interests_raw,
     target_skills |-> payload.target_skills_raw, created_at |-> now,
     updated_at |-> now]

(* lines 69-78: ChildCreateResponse *)
ChildCreateResponse(payload, child_uuid, now, keywords) ==
    [child_id |-> child_uuid, nickname |-> payload.nickname, age |-> payload.age,
     triggers |-> keywords[1], interests |-> keywords[2],
     target_skills |-> keywords[3], created_at |-> now, updated_at |-> now]

(* api/routers/children.py line 33: the route calls create_child(payload)     *)
(* without the required user_id; Python raises TypeError at the call.         *)
CreateChildProfile(r, payload) ==
    /\ CanStartChild(r) /\ LoopFree(r)
    /\ op' = [op EXCEPT ![r] = "create_child_profile"]
    /\ arg' = [arg EXCEPT ![r] = [payload |-> payload]]
    /\ Finish(r, Raised("TypeError", "missing 1 required positional argument"))
    /\ UNCHANGED <<sheets, clock, uuids, loop, loc>>

(* lines 31-40, up to the first backend request of generate_keywords *)
CreateChildStart(r, payload, user_id) ==
    /\ CanStartChild(r) /\ LoopFree(r)
    /\ op' = [op EXCEPT ![r] = "create_child"]
    /\ arg' = [arg EXCEPT ![r] = [payload |-> payload, user_id |-> user_id]]
    /\ uuids' = uuids + 1
    /\ \E now \in NowChoices :
        /\ clock' = now
        /\ IF ~RawTextOk(KeywordRequests(payload)[1].raw_text)
           THEN /\ Finish(r, Raised("ValidationError", "raw text cannot be empty."))
                /\ UNCHANGED loc
           ELSE /\ loc' = [loc EXCEPT ![r] =
                             [child_uuid |-> Uuid4(uuids + 1), now |-> now,
                              iso_now |-> ToIsoformat(now), keywords |-> <<>>]]
                /\ pc' = [pc EXCEPT ![r] = "keyword"]
                /\ UNCHANGED ret
    /\ UNCHANGED <<sheets, loop>>

(* a loop that takes a failed generation as an empty keyword string and goes  *)
(* on with the next request                                                   *)
KeywordResponseSwallow(r) ==
    /\ pc[r] = "keyword" /\ op[r] = "create_child" /\ LoopFree(r)
    /\ LET keywords == Append(loc[r].keywords, "")
       IN /\ loc' = [loc EXCEPT ![r].keywords = keywords]
          /\ pc' = IF Len(keywords) < Len(KeywordRequests(arg[r].payload)) THEN pc
                   ELSE [pc EXCEPT ![r] = CreateChildSteps[1]]
    /\ UNCHANGED <<sheets, clock, uuids, loop, op, arg, ret>>

(* OpenAIClient.generate_keywords lines 37-39 with KeywordProcessor.process:  *)
(* the backend answers the pending request; parse, format, next request       *)
KeywordResponse(r) ==
    /\ pc[r] = "keyword" /\ op[r] = "create_child" /\ LoopFree(r)
    /\ \/ /\ Finish(r, Raised("ExternalServiceError", "Failed to generate keywords."))
          /\ UNCHANGED loc
       \/ LET requests == KeywordRequests(arg[r].payload)
              request == requests[Len(loc[r].keywords) + 1]
          IN \E response \in KeywordResponses(request.label) :
               IF Processed[response] = None
               THEN /\ Finish(r, Raised("ValidationError", "keywords"))
                    /\ UNCHANGED loc
               ELSE LET keywords == Append(loc[r].keywords, Processed[response][1])
                    IN IF Len(keywords) < Len(requests)
                       THEN IF ~RawTextOk(requests[Len(keywords) + 1].raw_text)
                            THEN /\ Finish(r, Raised("ValidationError",
                                                     "raw text cannot be empty."))
                                 /\ UNCHANGED loc
                            ELSE /\ loc' = [loc EXCEPT ![r].keywords = keywords]
                                 /\ UNCHANGED <<pc, ret>>
                       ELSE /\ loc' = [loc EXCEPT ![r].keywords = keywords]
                            /\ pc' = [pc EXCEPT ![r] = CreateChildSteps[1]]
                            /\ UNCHANGED ret
    /\ UNCHANGED <<sheets, clock, uuids, loop, op, arg>>

(* after a repository call of create_child returned: the next one, or line 69 *)
CreateChildContinue(r, label) ==
    IF AfterStep(label) = "return"
    THEN Finish(r, Ok(ChildCreateResponse(arg[r].payload, loc[r].child_uuid,
                                          loc[r].now, loc[r].keywords)))
    ELSE /\ pc' = [pc EXCEPT ![r] = AfterStep(label)]
         /\ UNCHANGED ret

(* line 59: repository.create_child in a worker thread (append_row), or the   *)
(* spreadsheet call fails                                                     *)
RepoCreateChild(r) ==
    /\ pc[r] = "create_child" /\ op[r] = "create_child"
    /\ \/ /\ sheets' = [sheets EXCEPT !["children"] =
                 AppendRow(@, SerializeRow(CHILDREN_HEADERS,
                     ChildRecord(arg[r].payload, loc[r].child_uuid,
                                 loc[r].iso_now, loc[r].keywords)))]
          /\ CreateChildContinue(r, "create_child")
       \/ /\ Finish(r, Raised("APIError", "create_child"))
          /\ UNCHANGED sheets
    /\ UNCHANGED <<clock, uuids, loop, op, arg, loc>>

(* a link write that, when it fails, deletes the children row again *)
RepoLinkUserChildRollback(r) ==
    /\ pc[r] = "link_user_child" /\ op[r] = "create_child"
    /\ \/ /\ sheets' = [sheets EXCEPT !["user_children"] =
                 AppendRow(@, SerializeRow(USER_CHILDREN_HEADERS,
                     LinkRecord(arg[r].user_id, loc[r].child_uuid, loc[r].iso_now)))]
          /\ CreateChildContinue(r, "link_user_child")
       \/ /\ Finish(r, Raised("APIError", "link_user_child"))
          /\ sheets' = [sheets EXCEPT !["children"] =
                 SelectSeq(@, LAMBDA row : row[1] # loc[r].child_uuid)]
    /\ UNCHANGED <<clock, uuids, loop, op, arg, loc>>

(* lines 60-67: repository.link_user_child in a worker thread, or it fails *)
RepoLinkUserChild(r) ==
    /\ pc[r] = "link_user_child" /\ op[r] = "create_child"
    /\ \/ /\ sheets' = [sheets EXCEPT !["user_children"] =
                 AppendRow(@, SerializeRow(USER_CHILDREN_HEADERS,
                     LinkRecord(arg[r].user_id, loc[r].child_uuid, loc[r].iso_now)))]
          /\ CreateChildContinue(r, "link_user_child")
       \/ /\ Finish(r, Raised("APIError", "link_user_child"))
          /\ UNCHANGED sheets
    /\ UNCHANGED <<clock, uuids, loop, op, arg, loc>>

(* SheetsRepository.list_children_for_user: the links of the user, then the   *)
(* children row of each link; a link whose row is missing is skipped          *)
ListChildrenForUser(user_children_ws, children_ws, user_id) ==
    LET mappings == GetAllRecords(user_children_ws)
        links == SelectSeq(mappings, LAMBDA entry : entry["user_id"] = user_id)
        found == SelectSeq(links,
                    LAMBDA entry : FindRowById(children_ws, entry["child_id"]) # NoRow)
    IN [i \in 1..Len(found) |->
          DeserializeRow(CHILDREN_HEADERS,
              RowValues(children_ws, FindRowById(children_ws, found[i]["child_id"])))]

----------------------------------------------------------------------------
(* SessionsService.create_session *)

(* the child ids a request may name: those drawn so far, and one never drawn *)
ChildIdArgs == {Uuid4(n) : n \in 0..uuids}

SessionPayloads(ids) ==
    [child_id : ids, mood : {"calm"},
     environment : {"loc_indoor,noise_quiet,crowd_alone"},
     situation : {"first visit"}]

(* what the prompt model may answer, besides failing *)
PromptContents == {"Be calm.", " "}

(* SheetsRepository.get_child lines 151-153: is there a row to read *)
GetChildFound(ws, child_id) == FindRowById(ws, child_id) # NoRow

(* SheetsRepository.get_child lines 155-158; the age is parsed by the caller *)
GetChild(ws, child_id) ==
    DeserializeRow(CHILDREN_HEADERS, RowValues(ws, FindRowById(ws, child_id)))

(* lines 49-61: the sessions record; child_id is the one of the fetched child *)
SessionRecord(payload, child_record, session_uuid, prompt_text, iso_now) ==
    [session_id |-> session_uuid,
     child_id |-> child_record["child_id"],
     mood |-> payload.mood,
     environment |-> payload.environment,
     situation |-> payload.situation,
     prompt |-> prompt_text,
     created_at |-> iso_now]

(* lines 38-47: get_child in a worker thread, then the prompt request is sent *)
CreateSessionStart(r, payload) ==
    /\ CanStartChild(r) /\ LoopFree(r)
    /\ op' = [op EXCEPT ![r] = "create_session"]
    /\ arg' = [arg EXCEPT ![r] = payload]
    /\ IF ~GetChildFound(sheets["children"], payload.child_id)
       THEN /\ Finish(r, Raised("NotFoundError", "Child not found."))
            /\ UNCHANGED loc
       ELSE /\ loc' = [loc EXCEPT ![r] =
                 [child_record |-> GetChild(sheets["children"], payload.child_id)]]
            /\ pc' = [pc EXCEPT ![r] = "prompt"]
            /\ UNCHANGED ret
    /\ UNCHANGED <<sheets, clock, uuids, loop>>

(* OpenAIClient.generate_prompt answers; lines 49-61: uuid4, utc_now, record *)
PromptResponse(r) ==
    /\ pc[r] = "prompt" /\ op[r] = "create_session" /\ LoopFree(r)
    /\ \/ /\ Finish(r, Raised("ExternalServiceError", "Failed to generate session prompt."))
          /\ UNCHANGED <<loc, clock, uuids>>
       \/ \E content \in PromptContents :
            IF Strip(content) = ""
            THEN /\ Finish(r, Raised("ExternalServiceError",
                                     "OpenAI prompt response text was blank."))
                 /\ UNCHANGED <<loc, clock, uuids>>
            ELSE \E now \in NowChoices :
                 /\ clock' = now
                 /\ uuids' = uuids + 1
                 /\ loc' = [loc EXCEPT ![r] =
                       [child_record |-> @.child_record,
                        session_uuid |-> Uuid4(uuids + 1),
                        prompt_text |-> Strip(content),
                        now |-> now, iso_now |-> ToIsoformat(now)]]
                 /\ pc' = [pc EXCEPT ![r] = "create_session"]
                 /\ UNCHANGED ret
    /\ UNCHANGED <<sheets, loop, op, arg>>

(* line 63: repository.create_session in a worker thread, or it fails; 65-69 *)
RepoCreateSession(r) ==
    /\ pc[r] = "create_session" /\ op[r] = "create_session"
    /\ \/ /\ sheets' = [sheets EXCEPT !["sessions"] =
                 AppendRow(@, SerializeRow(SESSIONS_HEADERS,
                     SessionRecord(arg[r], loc[r].child_record, loc[r].session_uuid,
                                   loc[r].prompt_text, loc[r].iso_now)))]
          /\ Finish(r, Ok([session_id |-> loc[r].session_uuid,
                           prompt |-> loc[r].prompt_text,
                           created_at |-> loc[r].now]))
       \/ /\ Finish(r, Raised("APIError", "create_session"))
          /\ UNCHANGED sheets
    /\ UNCHANGED <<clock, uuids, loop, op, arg, loc>>

----------------------------------------------------------------------------
(* The services, serving requests against one spreadsheet *)

(* the spreadsheet as provisioned: every worksheet holds its header row *)
Init ==
    /\ sheets = [name \in SheetNames |-> <<Headers(name)>>]
    /\ clock = 0
    /\ uuids = 0
    /\ loop = 0
    /\ op = [r \in Reqs |-> "none"]
    /\ pc = [r \in Reqs |-> "idle"]
    /\ arg = [r \in Reqs |-> <<>>]
    /\ loc = [r \in Reqs |-> <<>>]
    /\ ret = [r \in Reqs |-> NoRet]

----------------------------------------------------------------------------
(* The repository called directly, each call in a thread of its own *)

RepoUser(n, email) ==
    [user_id |-> Uuid4(n), email |-> email,
     password_hash |-> Bcrypt("longenough"), full_name |-> "A", role |-> "parent",
     created_at |-> ToIsoformat(0), updated_at |-> ToIsoformat(0)]

(* user records as register builds them; last_login_at is left out of them *)
RepoUserRecords == {RepoUser(1, "a@x.com"), RepoUser(2, "A@x.com")}

UserUpdates ==
    {[full_name |-> "B"],
     [role |-> "therapist", last_login_at |-> ToIsoformat(TicksPerSec)],
     [full_name |-> "C", role |-> "therapist"]}

RepoChildRecords ==
    {ChildRecord(GoodChild, Uuid4(3), ToIsoformat(0), <<"loud_noise", "trains", "sharing">>)}

ChildUpdates == {[nickname |-> "Kay"], [age |-> "8", updated_at |-> ToIsoformat(TicksPerSec)]}

(* create_user / create_child (repository): serialize, append_row *)
CallCreate(r, sheet, record) ==
    /\ CanStart(r)
    /\ op' = [op EXCEPT ![r] = "create:" \o sheet]
    /\ arg' = [arg EXCEPT ![r] = record]
    /\ sheets' = [sheets EXCEPT ![sheet] =
                    AppendRow(@, SerializeRow(Headers(sheet), record))]
    /\ Finish(r, Ok(None))
    /\ UNCHANGED <<clock, uuids, loop, loc>>

CallCreateUser(r, record) == CallCreate(r, "users", record)
CallCreateChild(r, record) == CallCreate(r, "children", record)

(* update_user / update_child (repository): the call, before its first step *)
CallUpdate(r, sheet, id, updates) ==
    /\ CanStart(r)
    /\ op' = [op EXCEPT ![r] = "update:" \o sheet]
    /\ arg' = [arg EXCEPT ![r] = [id |-> id, updates |-> updates]]
    /\ loc' = [loc EXCEPT ![r] = [sheet |-> sheet, id |-> id, updates |-> updates]]
    /\ pc' = [pc EXCEPT ![r] = "update_find"]
    /\ UNCHANGED <<sheets, clock, uuids, loop, ret>>

CallUpdateUser(r, user_id, updates) == CallUpdate(r, "users", user_id, updates)
CallUpdateChild(r, child_id, updates) == CallUpdate(r, "children", child_id, updates)

----------------------------------------------------------------------------
(* the auth service: register and login requests *)
NextAuth ==
    \E r \in Reqs :
        \/ \E payload \in RegisterPayloads : RegisterStart(r, payload)
        \/ RegisterCreate(r)
        \/ \E payload \in LoginPayloads : LoginStart(r, payload)
        \/ UpdateFind(r)
        \/ UpdateRead(r)
        \/ UpdateWrite(r)

(* the children and sessions services: create child and create session requests *)
NextChildren ==
    \E r \in Reqs :
        \/ \E payload \in ChildPayloads : CreateChildProfile(r, payload)
        \/ \E payload \in ChildPayloads, user_id \in UserIds :
              CreateChildStart(r, payload, user_id)
        \/ KeywordResponse(r)
        \/ RepoCreateChild(r)
        \/ RepoLinkUserChild(r)
        \/ \E payload \in SessionPayloads(ChildIdArgs) : CreateSessionStart(r, payload)
        \/ PromptResponse(r)
        \/ RepoCreateSession(r)

(* callers of the repository's create and update methods *)
NextRepo ==
    \E r \in Reqs :
        \/ \E record \in RepoUserRecords : CallCreateUser(r, record)
        \/ \E record \in RepoChildRecords : CallCreateChild(r, record)
        \/ \E n \in 1..2, updates \in UserUpdates : CallUpdateUser(r, Uuid4(n), updates)
        \/ \E updates \in ChildUpdates : CallUpdateChild(r, Uuid4(3), updates)
        \/ UpdateFind(r)
        \/ UpdateRead(r)
        \/ UpdateWrite(r)

Next == NextAuth \/ NextChildren

Spec == Init /\ [][Next]_vars

(* The users sheet is written by the auth service alone and the other three   *)
(* sheets by the children and sessions services alone, so each group of       *)
(* requests is also checked on its own.                                       *)
SpecAuth == Init /\ [][NextAuth]_vars
SpecChildren == Init /\ [][NextChildren]_vars

(* The repository under concurrent callers, as its methods allow *)
SpecRepo == Init /\ [][NextRepo]_vars

----------------------------------------------------------------------------
(* Properties of the repository's read-modify-write update (SpecRepo) *)

DataRows(ws) == 2..Len(ws)

IsUpdate(r) == op[r] \in {"update:users", "update:children"}

(* request r takes the write step of its update in this step *)
Writes(r) == IsUpdate(r) /\ pc[r] = "update_write" /\ pc'[r] = "done"

(* the record a row holds, by column name *)
Stored(sheet, row) == [c \in Range(Headers(sheet)) |->
    row[CHOOSE i \in 1..Len(Headers(sheet)) : Headers(sheet)[i] = c]]

(* record over which updates are laid: the updates' value where it names the column *)
Overlaid(record, updates) ==
    [c \in DOMAIN record |-> IF c \in DOMAIN updates THEN updates[c] ELSE record[c]]

(* C1: when two update_user calls on one row both read the same old row and   *)
(* one has written, the write of the other leaves the row equal to the old    *)
(* row overlaid with the later writer's fields alone: a field only the earlier *)
(* writer changed is back at its old value; neither call ends in an error.    *)
C1_LastWriteWins ==
    [][\A r, q \in Reqs :
        (/\ r # q
         /\ Writes(r) /\ op[r] = "update:users"
         /\ op[q] = "update:users" /\ pc[q] = "done" /\ ret[q].kind = "ok"
         /\ loc[q].row_index = loc[r].row_index
         /\ loc[q].current_values = loc[r].current_values)
        => LET old == DeserializeRow(USERS_HEADERS, loc[r].current_values)
               final == Stored("users", sheets'["users"][loc[r].row_index])
           IN /\ final = Overlaid(old, loc[r].updates)
              /\ \A c \in DOMAIN loc[q].updates \ DOMAIN loc[r].updates :
                    final[c] = old[c]
              /\ ret'[r].kind = "ok" /\ ret'[q].kind = "ok"]_vars

(* two finished update_user calls read the same row, and the field that only  *)
(* one of them changed holds its old value again                              *)
C1_Witness ==
    \E r, q \in Reqs :
        /\ r # q
        /\ op[r] = "update:users" /\ pc[r] = "done" /\ ret[r].kind = "ok"
        /\ op[q] = "update:users" /\ pc[q] = "done" /\ ret[q].kind = "ok"
        /\ loc[q].row_index = loc[r].row_index
        /\ loc[q].current_values = loc[r].current_values
        /\ LET old == DeserializeRow(USERS_HEADERS, loc[r].current_values)
               final == Stored("users", sheets["users"][loc[r].row_index])
           IN /\ \A c \in DOMAIN loc[r].updates : final[c] = loc[r].updates[c]
              /\ \E c \in DOMAIN loc[q].updates \ DOMAIN loc[r].updates :
                    final[c] = old[c] /\ old[c] # loc[q].updates[c]

(* C2: an update_user or update_child whose row is, at its write, still the   *)
(* row it read leaves that row equal to the stored record with the updates    *)
(* laid over it, returns that merged record, writes the first row holding the *)
(* id, and changes no other row and no other sheet.                           *)
C2_UpdateMerges ==
    [][\A r \in Reqs :
        (Writes(r) /\ RowValues(sheets[loc[r].sheet], loc[r].row_index)
                        = loc[r].current_values)
        => LET sheet == loc[r].sheet
               k == loc[r].row_index
               old == Stored(sheet, sheets[sheet][k])
               merged == Overlaid(old, arg[r].updates)
           IN /\ k \in DataRows(sheets[sheet])
              /\ sheets[sheet][k][1] = arg[r].id
              /\ \A i \in DataRows(sheets[sheet]) :
                    sheets[sheet][i][1] = arg[r].id => k <= i
              /\ Len(sheets'[sheet]) = Len(sheets[sheet])
              /\ Stored(sheet, sheets'[sheet][k]) = merged
              /\ ret'[r] = Ok(merged)
              /\ \A i \in 1..Len(sheets[sheet]) :
                    i # k => sheets'[sheet][i] = sheets[sheet][i]
              /\ \A other \in SheetNames \ {sheet} : sheets'[other] = sheets[other]]_vars

(* an update_user has finished on a sheet of two or more data rows, and a     *)
(* column it did not name still holds a value                                 *)
C2_Witness ==
    \E r \in Reqs :
        /\ op[r] = "update:users" /\ pc[r] = "done" /\ ret[r].kind = "ok"
        /\ Len(sheets["users"]) >= 3
        /\ ret[r].value = Stored("users", sheets["users"][loc[r].row_index])
        /\ ret[r].value["last_login_at"] = ""
        /\ ret[r].value["full_name"] = "B"

----------------------------------------------------------------------------
(* Properties of the auth service (SpecAuth) *)

UsersRows == {sheets["users"][i] : i \in DataRows(sheets["users"])}

IsRegister(r) == op[r] = "register"
IsLogin(r) == op[r] = "login"

(* C3: in every reachable state no two rows of the users sheet hold the same  *)
(* email.                                                                     *)
C3_EmailUnique ==
    \A i, j \in DataRows(sheets["users"]) :
        i # j => sheets["users"][i][2] # sheets["users"][j][2]

(* two register requests for one email have both finished, one of them with a *)
(* row stored                                                                 *)
C3_Witness ==
    \E r, q \in Reqs :
        /\ r # q /\ IsRegister(r) /\ IsRegister(q)
        /\ arg[r].email = arg[q].email
        /\ pc[r] = "done" /\ pc[q] = "done" /\ ret[r].kind = "ok"
        /\ \E row \in UsersRows : row[2] = arg[r].email

(* C8: a register whose email equals, character for character, the email of a *)
(* stored row ends at once in a ValidationError and the sheets stay as they   *)
(* are; an email no row holds (also one that differs in letter case only) is  *)
(* not rejected as registered.                                                *)
C8_RegisterDuplicate ==
    [][\A r \in Reqs :
        (pc[r] = "idle" /\ op'[r] = "register")
        => IF \E row \in UsersRows : row[2] = arg'[r].email
           THEN /\ pc'[r] = "done"
                /\ ret'[r].kind = "error" /\ ret'[r].error = "ValidationError"
                /\ sheets' = sheets
           ELSE pc'[r] = "register_create" /\ ret'[r].kind = "none"]_vars

(* a register was rejected for its email while a row with an email that       *)
(* differs in case only was stored by another register                        *)
C8_Witness ==
    \E r, q \in Reqs :
        /\ IsRegister(r) /\ pc[r] = "done" /\ ret[r].kind = "error"
        /\ ret[r].message = "Email is already registered."
        /\ IsRegister(q) /\ pc[q] = "done" /\ ret[q].kind = "ok"
        /\ arg[q].email # arg[r].email /\ Lower(arg[q].email) = Lower(arg[r].email)
        /\ Len(sheets["users"]) = 3

(* C9: the step in which a register succeeds appends exactly one users row,   *)
(* whose created_at, updated_at and last_login_at all are the registration    *)
(* time, and returns a token with a user view whose last_login_at is that     *)
(* time (to the second).                                                      *)
C9_RegisterRow ==
    [][\A r \in Reqs :
        (IsRegister(r) /\ pc[r] = "register_create" /\ pc'[r] = "done"
            /\ ret'[r].kind = "ok")
        => LET before == sheets["users"]
               after == sheets'["users"]
               row == Stored("users", after[Len(after)])
               out == ret'[r].value
           IN /\ Len(after) = Len(before) + 1
              /\ SubSeq(after, 1, Len(before)) = before
              /\ \A other \in SheetNames \ {"users"} : sheets'[other] = sheets[other]
              /\ row["email"] = arg[r].email
              /\ row["created_at"] = ToIsoformat(clock')
              /\ row["updated_at"] = row["created_at"]
              /\ row["last_login_at"] = row["created_at"]
              /\ out.user.user_id = row["user_id"]
              /\ out.user.last_login_at
                    = Some((clock' \div TicksPerSec) * TicksPerSec)
              /\ out.access_token.email = arg[r].email]_vars

(* a register has succeeded at a time that is not a whole second *)
C9_Witness ==
    \E r \in Reqs :
        /\ IsRegister(r) /\ pc[r] = "done" /\ ret[r].kind = "ok"
        /\ ret[r].value.user.last_login_at # None
        /\ ret[r].value.user.last_login_at[1] < clock

(* C10: a login whose email no row holds ends in NotFoundError, and one whose *)
(* password does not match the stored hash ends in ValidationError; either    *)
(* ends the request in that step, with every sheet unchanged and no token.    *)
C10_LoginFails ==
    [][\A r \in Reqs :
        (pc[r] = "idle" /\ op'[r] = "login")
        => LET rows == {i \in DataRows(sheets["users"]) :
                          sheets["users"][i][2] = arg'[r].email}
           IN IF rows = {}
              THEN /\ pc'[r] = "done" /\ ret'[r].kind = "error"
                   /\ ret'[r].error = "NotFoundError"
                   /\ sheets' = sheets
              ELSE \A i \in rows :
                     sheets["users"][i][3] # Bcrypt(arg'[r].password)
                     => /\ pc'[r] = "done" /\ ret'[r].kind = "error"
                        /\ ret'[r].error = "ValidationError"
                        /\ sheets' = sheets]_vars

(* one login failed for an unknown email and another for a wrong password *)
C10_Witness ==
    \E r, q \in Reqs :
        /\ IsLogin(r) /\ pc[r] = "done" /\ ret[r].kind = "error"
        /\ ret[r].error = "NotFoundError"
        /\ IsLogin(q) /\ pc[q] = "done" /\ ret[q].kind = "error"
        /\ ret[q].error = "ValidationError"

----------------------------------------------------------------------------
(* Properties of the children and sessions services (SpecChildren) *)

ChildIds == {sheets["children"][i][1] : i \in DataRows(sheets["children"])}

(* the data rows of a sheet whose cell in column col is value *)
RowsWith(sheet, col, value) ==
    {i \in DataRows(sheets[sheet]) : sheets[sheet][i][col] = value}

IsCreateChild(r) == op[r] = "create_child"
IsCreateSession(r) == op[r] = "create_session"

(* C4: in every reachable state, also between the two writes of a create      *)
(* child, every child_id of a sessions row and of a user_children row is the  *)
(* id of a children row.                                                      *)
C4_ChildRefsExist ==
    /\ \A i \in DataRows(sheets["sessions"]) : sheets["sessions"][i][2] \in ChildIds
    /\ \A i \in DataRows(sheets["user_children"]) :
          sheets["user_children"][i][2] \in ChildIds

(* a session row and an ownership link are stored *)
C4_Witness ==
    /\ Len(sheets["sessions"]) > 1
    /\ Len(sheets["user_children"]) > 1

(* C5: a create session that starts on a child_id no children row holds ends  *)
(* in NotFoundError; a step in which a create session ends in an error leaves *)
(* every sheet unchanged; and the only step of a create session that changes  *)
(* a sheet is its last one, after the child was read and the prompt was       *)
(* generated, which appends one sessions row for that child and that prompt.  *)
C5_SessionWriteLast ==
    [][\A r \in Reqs :
        (op'[r] = "create_session" /\ pc'[r] # pc[r])
        => /\ (pc[r] = "idle" /\ arg'[r].child_id \notin ChildIds)
                => (pc'[r] = "done" /\ ret'[r].kind = "error"
                      /\ ret'[r].error = "NotFoundError")
           /\ ret'[r].kind = "error" => sheets' = sheets
           /\ sheets' # sheets
                => /\ pc[r] = "create_session" /\ ret'[r].kind = "ok"
                   /\ loc[r].child_record["child_id"] \in ChildIds
                   /\ loc[r].prompt_text # ""
                   /\ \A other \in SheetNames \ {"sessions"} :
                         sheets'[other] = sheets[other]
                   /\ Len(sheets'["sessions"]) = Len(sheets["sessions"]) + 1
                   /\ SubSeq(sheets'["sessions"], 1, Len(sheets["sessions"]))
                         = sheets["sessions"]
                   /\ LET row == Stored("sessions",
                                    sheets'["sessions"][Len(sheets'["sessions"])])
                      IN /\ row["child_id"] = arg[r].child_id
                         /\ row["prompt"] = loc[r].prompt_text
                         /\ row["session_id"] = ret'[r].value.session_id]_vars

(* a create session for an unknown child has failed while a children row is   *)
(* stored, and no sessions row was written                                    *)
C5_Witness ==
    \E r \in Reqs :
        /\ IsCreateSession(r) /\ pc[r] = "done" /\ ret[r].kind = "error"
        /\ ret[r].error = "NotFoundError"
        /\ ChildIds # {}
        /\ Len(sheets["sessions"]) = 1

(* C6: a create child writes in this order: while keywords are outstanding or *)
(* the children write is pending no row of the child exists; between the two  *)
(* writes all three keywords are there, one children row and no link; after a *)
(* success one children row and one link of the creating user exist, and the  *)
(* keywords returned are those of the children row.                           *)
C6_CreateChildOrder ==
    \A r \in Reqs :
        (IsCreateChild(r) /\ (pc[r] # "done" \/ ret[r].kind = "ok"))
        => LET id == loc[r].child_uuid
               kids == RowsWith("children", 1, id)
               links == RowsWith("user_children", 2, id)
           IN /\ pc[r] = "keyword"
                   => Len(loc[r].keywords) < 3 /\ kids = {} /\ links = {}
              /\ pc[r] = "create_child"
                   => Len(loc[r].keywords) = 3 /\ kids = {} /\ links = {}
              /\ pc[r] = "link_user_child"
                   => Len(loc[r].keywords) = 3 /\ Cardinality(kids) = 1 /\ links = {}
              /\ pc[r] = "done"
                   => /\ Cardinality(kids) = 1 /\ Cardinality(links) = 1
                      /\ \A i \in links :
                            sheets["user_children"][i][1] = arg[r].user_id
                      /\ \A i \in kids :
                            LET row == Stored("children", sheets["children"][i])
                            IN /\ ret[r].value.child_id = id
                               /\ ret[r].value.triggers = row["triggers"]
                               /\ ret[r].value.interests = row["interests"]
                               /\ ret[r].value.target_skills = row["target_skills"]

(* a create child has succeeded and returned its three keyword strings *)
C6_Witness ==
    \E r \in Reqs :
        /\ IsCreateChild(r) /\ pc[r] = "done" /\ ret[r].kind = "ok"
        /\ ret[r].value.triggers = "loud_noise,crowds"
        /\ ret[r].value.target_skills = "sharing,turn_taking"

(* the link write of create child r is pending or has failed *)
LinkMissing(r) ==
    /\ IsCreateChild(r)
    /\ \/ pc[r] = "link_user_child"
       \/ /\ pc[r] = "done" /\ ret[r].kind = "error"
          /\ ret[r].message = "link_user_child"

(* C7: when the link write of a create child has failed, or the request has   *)
(* stopped before it, the children row is stored, no user_children row names  *)
(* the child, and list children for the creating user does not return it.     *)
C7_OrphanChild ==
    \A r \in Reqs :
        LinkMissing(r)
        => /\ Cardinality(RowsWith("children", 1, loc[r].child_uuid)) = 1
           /\ RowsWith("user_children", 2, loc[r].child_uuid) = {}
           /\ \A record \in Range(ListChildrenForUser(sheets["user_children"],
                                        sheets["children"], arg[r].user_id)) :
                 record["child_id"] # loc[r].child_uuid

(* the link write of a create child has failed, and the same user is listed   *)
(* another child                                                              *)
C7_Witness ==
    \E r \in Reqs :
        /\ LinkMissing(r) /\ pc[r] = "done"
        /\ ListChildrenForUser(sheets["user_children"], sheets["children"],
                               arg[r].user_id) # <<>>

----------------------------------------------------------------------------
(* Properties of login (SpecAuth) *)

(* the columns of a users row that login does not name *)
LoginKeeps == {"user_id", "email", "password_hash", "full_name", "role", "created_at"}

(* C11: the step in which a login succeeds sets last_login_at and updated_at  *)
(* of the row holding the login's email to the one login time, keeps the      *)
(* other six columns of that row, every other users row, the number of users  *)
(* rows and every other sheet; the earlier steps of a login write nothing.    *)
C11_LoginFrame ==
    [][\A r \in Reqs :
        (op'[r] = "login" /\ pc'[r] # pc[r])
        => IF pc'[r] = "done" /\ ret'[r].kind = "ok"
           THEN LET users == sheets["users"]
                    k == CHOOSE i \in DataRows(users) : users[i][2] = arg[r].email
                    old == Stored("users", users[k])
                    new == Stored("users", sheets'["users"][k])
                IN /\ Len(sheets'["users"]) = Len(users)
                   /\ new["last_login_at"] = ToIsoformat(clock)
                   /\ new["updated_at"] = new["last_login_at"]
                   /\ \A c \in LoginKeeps : new[c] = old[c]
                   /\ \A i \in 1..Len(users) : i # k => sheets'["users"][i] = users[i]
                   /\ \A other \in SheetNames \ {"users"} :
                         sheets'[other] = sheets[other]
           ELSE sheets' = sheets]_vars

(* a login has succeeded on a sheet of two users, at a time later than the    *)
(* user's registration                                                        *)
C11_Witness ==
    \E r \in Reqs :
        /\ IsLogin(r) /\ pc[r] = "done" /\ ret[r].kind = "ok"
        /\ Len(sheets["users"]) >= 3
        /\ LET row == Stored("users", sheets["users"][loc[r].row_index])
           IN /\ row["last_login_at"] # row["created_at"]
              /\ row["updated_at"] = row["last_login_at"]

----------------------------------------------------------------------------
(* The read methods of the repository, called on a spreadsheet that already   *)
(* holds rows                                                                 *)

MaxCalls == 2       \* concurrent callers of the repository's read methods

CanStartCall(r) == CanStart(r) /\ r <= MaxCalls

(* the code point of a character of a timestamp or an identifier *)
CodePoint(c) ==
    CASE c = "-" -> 45
      [] c \in {ToString(d) : d \in 0..9} -> 48 + DigitVal(c)
      [] c = ":" -> 58
      [] c = "T" -> 84
      [] c = "Z" -> 90

(* Python's a > b on str: by code point, a proper prefix is smaller *)
RECURSIVE StrGreater(_, _)
StrGreater(a, b) ==
    IF Len(a) = 0 THEN FALSE
    ELSE IF Len(b) = 0 THEN TRUE
    ELSE IF Char(a, 1) = Char(b, 1)
         THEN StrGreater(SubSeq(a, 2, Len(a)), SubSeq(b, 2, Len(b)))
         ELSE CodePoint(Char(a, 1)) > CodePoint(Char(b, 1))

(* the scan keeping every row of the child it meets, so that the last one wins *)
RECURSIVE LatestFromLast(_, _, _, _)
LatestFromLast(all_rows, child_id, idx, latest_row) ==
    IF idx > Len(all_rows) THEN latest_row
    ELSE IF all_rows[idx]["child_id"] # child_id \/ all_rows[idx]["created_at"] = ""
         THEN LatestFromLast(all_rows, child_id, idx + 1, latest_row)
         ELSE LatestFromLast(all_rows, child_id, idx + 1, Some(all_rows[idx]))

(* get_latest_session_for_child lines 256-264: the loop from row idx on;      *)
(* latest_created is the created_at of latest_row                             *)
RECURSIVE LatestFrom(_, _, _, _)
LatestFrom(all_rows, child_id, idx, latest_row) ==
    IF idx > Len(all_rows) THEN latest_row
    ELSE LET row == all_rows[idx]
             created_at == row["created_at"]
         IN IF row["child_id"] # child_id
            THEN LatestFrom(all_rows, child_id, idx + 1, latest_row)
            ELSE IF created_at = ""
            THEN LatestFrom(all_rows, child_id, idx + 1, latest_row)
            ELSE IF latest_row = None
            THEN LatestFrom(all_rows, child_id, idx + 1, Some(row))
            ELSE IF StrGreater(created_at, latest_row[1]["created_at"])
            THEN LatestFrom(all_rows, child_id, idx + 1, Some(row))
            ELSE LatestFrom(all_rows, child_id, idx + 1, latest_row)

(* SheetsRepository.get_latest_session_for_child *)
GetLatestSessionForChild(ws, child_id) ==
    LatestFrom(GetAllRecords(ws), child_id, 1, None)

(* int(text) of a run of digits *)
RECURSIVE IntOf(_)
IntOf(text) ==
    IF Len(text) = 0 THEN 0
    ELSE 10 * IntOf(SubSeq(text, 1, Len(text) - 1)) + DigitVal(Char(text, Len(text)))

(* what get_child / get_session / get_user_by_id return for the row read:     *)
(* get_child parses the age, get_user_by_id returns an Optional               *)
GetResult(sheet, record) ==
    CASE sheet = "children" ->
            Ok([record EXCEPT !["age"] = IF @ # "" THEN Some(IntOf(@)) ELSE None])
      [] sheet = "sessions" -> Ok(record)
      [] sheet = "users" -> Ok(Some(record))

(* what they do when _find_row_by_id returns None *)
GetMissing(sheet) ==
    IF sheet = "users" THEN Ok(None) ELSE Raised("NotFoundError", "not found")

(* get_child / get_session / get_user_by_id: the call, before its first step *)
CallGetById(r, sheet, id) ==
    /\ CanStartCall(r)
    /\ op' = [op EXCEPT ![r] = "get:" \o sheet]
    /\ arg' = [arg EXCEPT ![r] = [sheet |-> sheet, id |-> id]]
    /\ loc' = [loc EXCEPT ![r] = [sheet |-> sheet, id |-> id]]
    /\ pc' = [pc EXCEPT ![r] = "get_find"]
    /\ UNCHANGED <<sheets, clock, uuids, loop, ret>>

(* a lookup that answers an absent record for every sheet *)
GetFindLenient(r) ==
    /\ pc[r] = "get_find"
    /\ LET row_index == FindRowById(sheets[loc[r].sheet], loc[r].id)
       IN IF row_index = NoRow
          THEN /\ Finish(r, Ok(None))
               /\ UNCHANGED loc
          ELSE /\ loc' = [loc EXCEPT ![r] =
                            [sheet |-> @.sheet, id |-> @.id, row_index |-> row_index]]
               /\ pc' = [pc EXCEPT ![r] = "get_read"]
               /\ UNCHANGED ret
    /\ UNCHANGED <<sheets, clock, uuids, loop, op, arg>>

(* lines 151-153 / 186-190 / 211-213: _find_row_by_id and the None branch *)
GetFind(r) ==
    /\ pc[r] = "get_find"
    /\ LET row_index == FindRowById(sheets[loc[r].sheet], loc[r].id)
       IN IF row_index = NoRow
          THEN /\ Finish(r, GetMissing(loc[r].sheet))
               /\ UNCHANGED loc
          ELSE /\ loc' = [loc EXCEPT ![r] =
                            [sheet |-> @.sheet, id |-> @.id, row_index |-> row_index]]
               /\ pc' = [pc EXCEPT ![r] = "get_read"]
               /\ UNCHANGED ret
    /\ UNCHANGED <<sheets, clock, uuids, loop, op, arg>>

(* lines 155-158 / 192-193 / 214-215: row_values, _deserialize_row, return *)
GetRead(r) ==
    /\ pc[r] = "get_read"
    /\ Finish(r, GetResult(loc[r].sheet,
                  DeserializeRow(Headers(loc[r].sheet),
                                 RowValues(sheets[loc[r].sheet], loc[r].row_index))))
    /\ UNCHANGED <<sheets, clock, uuids, loop, op, arg, loc>>

(* _find_row_by_id(worksheet, identifier): one col_values call and the scan *)
CallFindRowById(r, sheet, identifier) ==
    /\ CanStartCall(r)
    /\ op' = [op EXCEPT ![r] = "find_row"]
    /\ arg' = [arg EXCEPT ![r] = [sheet |-> sheet, column_index |-> 1,
                                  value |-> identifier]]
    /\ Finish(r, Ok(FindRowById(sheets[sheet], identifier)))
    /\ UNCHANGED <<sheets, clock, uuids, loop, loc>>

(* _find_row_by_column(worksheet, column_index=, value=) *)
CallFindRowByColumn(r, sheet, column_index, value) ==
    /\ CanStartCall(r)
    /\ op' = [op EXCEPT ![r] = "find_row"]
    /\ arg' = [arg EXCEPT ![r] = [sheet |-> sheet, column_index |-> column_index,
                                  value |-> value]]
    /\ Finish(r, Ok(FindRowByColumn(sheets[sheet], column_index, value)))
    /\ UNCHANGED <<sheets, clock, uuids, loop, loc>>

(* get_latest_session_for_child(child_id): one get_all_records call and the scan *)
CallGetLatestSession(r, child_id) ==
    /\ CanStartCall(r)
    /\ op' = [op EXCEPT ![r] = "latest_session"]
    /\ arg' = [arg EXCEPT ![r] = [child_id |-> child_id]]
    /\ Finish(r, Ok(GetLatestSessionForChild(sheets["sessions"], child_id)))
    /\ UNCHANGED <<sheets, clock, uuids, loop, loc>>

(* A worksheet holding the header row and the rows of the records *)
Sheet(name, records) ==
    <<Headers(name)>> \o
    [i \in 1..Len(records) |-> SerializeRow(Headers(name), records[i])]

(* records as the services store them *)
StoredChild(n, nickname) ==
    ChildRecord([GoodChild EXCEPT !.nickname = nickname], Uuid4(n), ToIsoformat(0),
                <<"loud_noise", "trains", "sharing">>)

StoredSession(n, child_n, second) ==
    SessionRecord([mood |-> "calm", environment |-> "loc_indoor,noise_quiet,crowd_alone",
                   situation |-> "first visit"],
                  StoredChild(child_n, "Kai"), Uuid4(n), "Be calm.",
                  ToIsoformat(second * TicksPerSec))

(* What the spreadsheet may hold when the repository is constructed over it:   *)
(* rows of earlier create calls.  create_child checks no uniqueness, so an id  *)
(* may be held by two rows.                                                    *)
SeedChildren ==
    {<<>>, <<StoredChild(1, "Kai")>>,
     <<StoredChild(1, "Kai"), StoredChild(2, "Bo"), StoredChild(1, "Kim")>>}

SeedSessions ==
    {<<>>, <<StoredSession(5, 1, 0)>>,
     <<StoredSession(5, 1, 1), StoredSession(6, 1, 0), StoredSession(7, 2, 2)>>,
     <<StoredSession(5, 1, 0), StoredSession(6, 1, 1), StoredSession(7, 1, 1)>>}

SeedUsers == {<<>>, <<RepoUser(1, "a@x.com"), RepoUser(2, "A@x.com")>>}

InitLookup ==
    /\ sheets \in {[name \in SheetNames |->
                       CASE name = "children" -> Sheet(name, c)
                         [] name = "sessions" -> Sheet(name, s)
                         [] name = "users" -> Sheet(name, u)
                         [] name = "user_children" -> Sheet(name, <<>>)] :
                    c \in SeedChildren, s \in SeedSessions, u \in SeedUsers}
    /\ clock = 0
    /\ uuids = 0
    /\ loop = 0
    /\ op = [r \in Reqs |-> "none"]
    /\ pc = [r \in Reqs |-> "idle"]
    /\ arg = [r \in Reqs |-> <<>>]
    /\ loc = [r \in Reqs |-> <<>>]
    /\ ret = [r \in Reqs |-> NoRet]

(* a create call by one of the concurrent callers *)
CallAppend(r, sheet, record) == r <= MaxCalls /\ CallCreate(r, sheet, record)

(* the ids and values the callers look up: held once, held twice, not held,   *)
(* and the header cell                                                        *)
LookupIds == {Uuid4(1), Uuid4(5)}
FindIds == {Uuid4(1), Uuid4(3), "child_id"}
LatestIds == {Uuid4(1), Uuid4(2), Uuid4(3)}

NextLookup ==
    \E r \in Reqs :
        \/ \E sheet \in {"children", "sessions", "users"}, id \in LookupIds :
              CallGetById(r, sheet, id)
        \/ GetFind(r)
        \/ GetRead(r)
        \/ \E id \in FindIds : CallFindRowById(r, "children", id)
        \/ \E email \in Emails : CallFindRowByColumn(r, "users", 2, email)
        \/ CallFindRowByColumn(r, "sessions", 2, Uuid4(1))
        \/ \E id \in LatestIds : CallGetLatestSession(r, id)
        \/ CallAppend(r, "children", StoredChild(3, "Bo"))
        \/ CallAppend(r, "sessions", StoredSession(8, 1, 1))

SpecLookup == InitLookup /\ [][NextLookup]_vars

----------------------------------------------------------------------------
(* Properties of the repository's read methods (SpecLookup) *)

(* the rows of worksheet ws, the header row too, whose cell in column col is value *)
Hits(ws, col, value) == {i \in 1..Len(ws) : ws[i][col] = value}

(* C14: get_latest_session_for_child(c) returns None when no sessions row     *)
(* holds child_id c, and otherwise a sessions row of child c whose created_at *)
(* no created_at of a row of child c is greater than, as strings.             *)
C14_LatestIsMax ==
    [][\A r \in Reqs :
        (op'[r] = "latest_session" /\ pc[r] = "idle" /\ pc'[r] = "done")
        => LET ws == sheets["sessions"]
               rows == {i \in DataRows(ws) : ws[i][2] = arg'[r].child_id}
           IN /\ ret'[r].kind = "ok"
              /\ IF rows = {} THEN ret'[r].value = None
                 ELSE \E i \in rows :
                        /\ ret'[r].value = Some(Stored("sessions", ws[i]))
                        /\ \A j \in rows : ~StrGreater(ws[j][7], ws[i][7])]_vars

(* a call has returned a row of the child that is followed by an older row of *)
(* the same child                                                             *)
C14_Witness ==
    \E r \in Reqs :
        /\ op[r] = "latest_session" /\ pc[r] = "done" /\ ret[r].value # None
        /\ LET ws == sheets["sessions"]
           IN \E i, j \in DataRows(ws) :
                /\ i < j /\ ws[i][2] = arg[r].child_id /\ ws[j][2] = arg[r].child_id
                /\ ret[r].value[1]["session_id"] = ws[i][1]
                /\ StrGreater(ws[i][7], ws[j][7])

IsGet(r) == op[r] \in {"get:children", "get:sessions", "get:users"}

(* C15 as stated: get_child, get_session and get_user_by_id all end in        *)
(* NotFoundError when no row holds the id, and change no sheet.               *)
C15_AllRaiseNotFound ==
    [][\A r \in Reqs :
        (IsGet(r) /\ pc[r] = "get_find" /\ pc'[r] # pc[r]
           /\ Hits(sheets[loc[r].sheet], 1, loc[r].id) = {})
        => /\ ret'[r].kind = "error" /\ ret'[r].error = "NotFoundError"
           /\ sheets' = sheets]_vars

(* C15, amended: no step of a get-by-id changes a sheet; when no row holds    *)
(* the id, get_child and get_session end in NotFoundError and get_user_by_id  *)
(* returns None without an error.                                             *)
C15_GetMissing ==
    [][\A r \in Reqs :
        (IsGet(r) /\ pc'[r] # pc[r])
        => /\ sheets' = sheets
           /\ (pc[r] = "get_find" /\ Hits(sheets[loc[r].sheet], 1, loc[r].id) = {})
                => /\ pc'[r] = "done"
                   /\ IF op[r] = "get:users" THEN ret'[r] = Ok(None)
                      ELSE /\ ret'[r].kind = "error"
                           /\ ret'[r].error = "NotFoundError"]_vars

(* a get_child and a get_user_by_id of absent ids have both ended, on sheets  *)
(* that hold rows                                                             *)
C15_Witness ==
    \E r, q \in Reqs :
        /\ op[r] = "get:children" /\ pc[r] = "done" /\ ret[r].kind = "error"
        /\ op[q] = "get:users" /\ pc[q] = "done" /\ ret[q] = Ok(None)
        /\ Len(sheets["children"]) > 1 /\ Len(sheets["users"]) > 1

(* C16: a locator call returns without raising; it returns no row when no     *)
(* cell of the scanned column equals the value, and otherwise the smallest    *)
(* row index whose cell equals the value, however many rows hold it.          *)
C16_FirstMatch ==
    [][\A r \in Reqs :
        (op'[r] = "find_row" /\ pc[r] = "idle" /\ pc'[r] = "done")
        => LET hits == Hits(sheets[arg'[r].sheet], arg'[r].column_index, arg'[r].value)
           IN /\ ret'[r].kind = "ok"
              /\ sheets' = sheets
              /\ IF hits = {} THEN ret'[r].value = NoRow
                 ELSE /\ ret'[r].value \in hits
                      /\ \A j \in hits : ret'[r].value <= j]_vars

(* a locator call has returned the first of two rows holding the value, and   *)
(* another has returned no row                                                *)
C16_Witness ==
    \E r, q \in Reqs :
        /\ op[r] = "find_row" /\ pc[r] = "done"
        /\ Cardinality(Hits(sheets[arg[r].sheet], arg[r].column_index,
                            arg[r].value)) >= 2
        /\ ret[r].value # NoRow
        /\ op[q] = "find_row" /\ pc[q] = "done" /\ ret[q].value = NoRow

----------------------------------------------------------------------------
(* The reads of the children and sessions services that go by the user:       *)
(* list children, get child with a requesting user, get latest session        *)

(* ChildSummary(...) of children_service.py lines 118-129 *)
ChildSummary(record) ==
    [child_id |-> record["child_id"], nickname |-> record["nickname"],
     age |-> IntOf(record["age"]), comm_level |-> record["comm_level"],
     personality |-> record["personality"], triggers |-> record["triggers"],
     interests |-> record["interests"], target_skills |-> record["target_skills"],
     created_at |-> FromIsoformat(record["created_at"]),
     updated_at |-> FromIsoformat(record["updated_at"])]

(* lines 115-131: the response built from the records the repository returned *)
ChildrenListResponse(records) ==
    [children |-> [i \in 1..Len(records) |-> ChildSummary(records[i])]]

(* list_children_for_user went through child_ids up to position done: the     *)
(* next lookup, or the return                                                 *)
ListAdvance(r, done, results) ==
    IF done = Len(loc[r].child_ids)
    THEN /\ Finish(r, Ok(ChildrenListResponse(results)))
         /\ loc' = [loc EXCEPT ![r] =
                [child_ids |-> @.child_ids, done |-> done, results |-> results]]
    ELSE /\ loc' = [loc EXCEPT ![r] =
                [child_ids |-> @.child_ids, done |-> done, results |-> results]]
         /\ pc' = [pc EXCEPT ![r] = "list_find"]
         /\ UNCHANGED ret

(* ChildrenService.list_children_for_user: the repository method in a worker  *)
(* thread; sheets_repo.py lines 222-228: get_all_records, child_ids           *)
ListChildrenStart(r, user_id) ==
    /\ CanStartCall(r) /\ LoopFree(r)
    /\ op' = [op EXCEPT ![r] = "list_children"]
    /\ arg' = [arg EXCEPT ![r] = [user_id |-> user_id]]
    /\ LET mappings == GetAllRecords(sheets["user_children"])
           links == SelectSeq(mappings, LAMBDA entry : entry["user_id"] = user_id)
           child_ids == [i \in 1..Len(links) |-> links[i]["child_id"]]
       IN IF Len(child_ids) = 0
          THEN /\ Finish(r, Ok(ChildrenListResponse(<<>>)))
               /\ loc' = [loc EXCEPT ![r] =
                      [child_ids |-> child_ids, done |-> 0, results |-> <<>>]]
          ELSE /\ loc' = [loc EXCEPT ![r] =
                      [child_ids |-> child_ids, done |-> 0, results |-> <<>>]]
               /\ pc' = [pc EXCEPT ![r] = "list_find"]
               /\ UNCHANGED ret
    /\ UNCHANGED <<sheets, clock, uuids, loop>>

(* a lookup that raises when the linked child has no row *)
ListFindStrict(r) ==
    /\ pc[r] = "list_find"
    /\ LET row_index == FindRowById(sheets["children"],
                                    loc[r].child_ids[loc[r].done + 1])
       IN IF row_index = NoRow
          THEN /\ Finish(r, Raised("NotFoundError", "not found"))
               /\ UNCHANGED loc
          ELSE /\ loc' = [loc EXCEPT ![r] =
                      [child_ids |-> @.child_ids, done |-> @.done,
                       results |-> @.results, row_index |-> row_index]]
               /\ pc' = [pc EXCEPT ![r] = "list_read"]
               /\ UNCHANGED ret
    /\ UNCHANGED <<sheets, clock, uuids, loop, op, arg>>

(* sheets_repo.py lines 230-232: _find_row_by_id of the next child id; a       *)
(* missing row is skipped                                                     *)
ListFind(r) ==
    /\ pc[r] = "list_find"
    /\ LET row_index == FindRowById(sheets["children"],
                                    loc[r].child_ids[loc[r].done + 1])
       IN IF row_index = NoRow
          THEN ListAdvance(r, loc[r].done + 1, loc[r].results)
          ELSE /\ loc' = [loc EXCEPT ![r] =
                      [child_ids |-> @.child_ids, done |-> @.done,
                       results |-> @.results, row_index |-> row_index]]
               /\ pc' = [pc EXCEPT ![r] = "list_read"]
               /\ UNCHANGED ret
    /\ UNCHANGED <<sheets, clock, uuids, loop, op, arg>>

(* sheets_repo.py lines 233-234: row_values, results.append *)
ListRead(r) ==
    /\ pc[r] = "list_read"
    /\ ListAdvance(r, loc[r].done + 1,
          Append(loc[r].results,
                 DeserializeRow(CHILDREN_HEADERS,
                                RowValues(sheets["children"], loc[r].row_index))))
    /\ UNCHANGED <<sheets, clock, uuids, loop, op, arg>>

(* ChildrenService.get_child(child_id, user_id) with a user, lines 82-85:     *)
(* SheetsRepository defines no user_owns_child, so reading the attribute      *)
(* raises AttributeError before any spreadsheet call                          *)
GetChildForUser(r, child_id, user_id) ==
    /\ CanStartCall(r) /\ LoopFree(r)
    /\ op' = [op EXCEPT ![r] = "get_child"]
    /\ arg' = [arg EXCEPT ![r] = [child_id |-> child_id, user_id |-> user_id]]
    /\ Finish(r, Raised("AttributeError", "user_owns_child"))
    /\ UNCHANGED <<sheets, clock, uuids, loop, loc>>

(* SessionsService.get_latest_session(user_id, child_id), lines 133-135: the  *)
(* same missing attribute                                                     *)
GetLatestSession(r, user_id, child_id) ==
    /\ CanStartCall(r) /\ LoopFree(r)
    /\ op' = [op EXCEPT ![r] = "get_latest_session"]
    /\ arg' = [arg EXCEPT ![r] = [child_id |-> child_id, user_id |-> user_id]]
    /\ Finish(r, Raised("AttributeError", "user_owns_child"))
    /\ UNCHANGED <<sheets, clock, uuids, loop, loc>>

StoredLink(user_id, child_n) == LinkRecord(user_id, Uuid4(child_n), ToIsoformat(0))

(* the ownership links the spreadsheet may hold; link_user_child checks no    *)
(* children row, so a link may name a child that has none                     *)
SeedLinks ==
    {<<>>, <<StoredLink("user-1", 1)>>,
     <<StoredLink("user-1", 2), StoredLink("user-2", 1), StoredLink("user-1", 1)>>}

InitUserChildren ==
    /\ sheets \in {[name \in SheetNames |->
                       CASE name = "children" -> Sheet(name, c)
                         [] name = "user_children" -> Sheet(name, l)
                         [] name = "sessions" -> Sheet(name, <<StoredSession(5, 1, 0)>>)
                         [] name = "users" -> Sheet(name, <<>>)] :
                    c \in SeedChildren, l \in SeedLinks}
    /\ clock = 0
    /\ uuids = 0
    /\ loop = 0
    /\ op = [r \in Reqs |-> "none"]
    /\ pc = [r \in Reqs |-> "idle"]
    /\ arg = [r \in Reqs |-> <<>>]
    /\ loc = [r \in Reqs |-> <<>>]
    /\ ret = [r \in Reqs |-> NoRet]

NextUserChildren ==
    \E r \in Reqs :
        \/ \E user_id \in UserIds : ListChildrenStart(r, user_id)
        \/ ListFind(r)
        \/ ListRead(r)
        \/ \E user_id \in UserIds : GetChildForUser(r, Uuid4(1), user_id)
        \/ \E user_id \in UserIds, n \in 1..2 : GetLatestSession(r, user_id, Uuid4(n))
        \/ CallAppend(r, "children", StoredChild(2, "Bo"))
        \/ CallAppend(r, "user_children", StoredLink("user-1", 1))

SpecUserChildren == InitUserChildren /\ [][NextUserChildren]_vars

----------------------------------------------------------------------------
(* Properties of the reads by user (SpecUserChildren) *)

(* the user_children rows of the user, top to bottom, whose child has a       *)
(* children row                                                               *)
LinkedRows(user_id) ==
    SelectSeq([i \in 1..(Len(sheets["user_children"]) - 1) |-> i + 1],
              LAMBDA i : /\ sheets["user_children"][i][1] = user_id
                         /\ Hits(sheets["children"], 1,
                                 sheets["user_children"][i][2]) # {})

(* the first children row holding the id *)
ChildRowOf(child_id) ==
    LET hits == Hits(sheets["children"], 1, child_id)
    IN sheets["children"][CHOOSE i \in hits : \A j \in hits : i <= j]

(* a link (user, child) is stored *)
Linked(user_id, child_id) ==
    \E i \in DataRows(sheets["user_children"]) :
        /\ sheets["user_children"][i][1] = user_id
        /\ sheets["user_children"][i][2] = child_id

(* C12 as stated: get child with a requesting user, and get latest session,   *)
(* end in NotFoundError when no link (user, child) is stored.                 *)
C12_NotFoundWithoutLink ==
    \A r \in Reqs :
        (/\ op[r] \in {"get_child", "get_latest_session"} /\ pc[r] = "done"
         /\ ~Linked(arg[r].user_id, arg[r].child_id))
        => (ret[r].kind = "error" /\ ret[r].error = "NotFoundError")

(* C13: no step of list children changes a sheet or raises; every entry       *)
(* returned is the summary of a children row linked to the user; and a list   *)
(* children that no write ran across returns, in the order of the links, one  *)
(* entry per user_children row of the user whose child_id has a children row, *)
(* a link without children row being skipped.                                 *)
C13_ListChildren ==
    [][\A r \in Reqs :
        (op'[r] = "list_children" /\ pc'[r] # pc[r])
        => /\ sheets' = sheets
           /\ pc'[r] = "done"
                => LET user_id == arg'[r].user_id
                       children == ret'[r].value.children
                       linked == LinkedRows(user_id)
                   IN /\ ret'[r].kind = "ok"
                      /\ \A k \in 1..Len(children) :
                            /\ Linked(user_id, children[k].child_id)
                            /\ \E i \in DataRows(sheets["children"]) :
                                  children[k] =
                                    ChildSummary(Stored("children", sheets["children"][i]))
                      /\ (\A q \in Reqs : q > r => pc[q] = "idle")
                            => /\ Len(children) = Len(linked)
                               /\ \A k \in 1..Len(linked) :
                                     children[k] = ChildSummary(Stored("children",
                                        ChildRowOf(sheets["user_children"][linked[k]][2])))]_vars

(* a list children has returned an entry while the user holds a link to a     *)
(* child without children row, and another user holds a link too              *)
C13_Witness ==
    \E r \in Reqs :
        /\ op[r] = "list_children" /\ pc[r] = "done"
        /\ Len(ret[r].value.children) >= 1
        /\ \E i \in DataRows(sheets["user_children"]) :
              /\ sheets["user_children"][i][1] = arg[r].user_id
              /\ Hits(sheets["children"], 1, sheets["user_children"][i][2]) = {}
        /\ \E i \in DataRows(sheets["user_children"]) :
              sheets["user_children"][i][1] # arg[r].user_id

----------------------------------------------------------------------------
(* The four create methods of the repository under concurrent callers, with   *)
(* updates running across them                                                *)

CallCreateSession(r, record) == CallCreate(r, "sessions", record)
CallLinkUserChild(r, record) == CallCreate(r, "user_children", record)

NextCreates ==
    \E r \in Reqs :
        \/ \E record \in RepoUserRecords : CallCreateUser(r, record)
        \/ \E record \in RepoChildRecords : CallCreateChild(r, record)
        \/ CallCreateSession(r, StoredSession(5, 3, 0))
        \/ CallLinkUserChild(r, StoredLink("user-1", 3))
        \/ CallUpdateUser(r, Uuid4(1), [full_name |-> "B"])
        \/ CallUpdateChild(r, Uuid4(3), [nickname |-> "Kay"])
        \/ UpdateFind(r)
        \/ UpdateRead(r)
        \/ UpdateWrite(r)

SpecCreates == Init /\ [][NextCreates]_vars

----------------------------------------------------------------------------
(* Properties of the create methods (SpecCreates) *)

CreatedSheet(r) ==
    CHOOSE sheet \in SheetNames : op[r] = "create:" \o sheet

IsCreate(r) == \E sheet \in SheetNames : op[r] = "create:" \o sheet

(* C17: a create appends its record as a new last row of its sheet and leaves *)
(* every row that was stored where it was and as it was; an update that runs  *)
(* across creates writes only the row holding its id; so every sheet holds    *)
(* one row per create made on it.                                             *)
C17_CreatesAppend ==
    [][/\ \A r \in Reqs :
            (pc[r] = "idle" /\ pc'[r] = "done" /\ IsCreate(r)')
            => LET sheet == CreatedSheet(r)'
                   record == arg'[r]
                   last == Stored(sheet, sheets'[sheet][Len(sheets'[sheet])])
               IN /\ ret'[r].kind = "ok"
                  /\ Len(sheets'[sheet]) = Len(sheets[sheet]) + 1
                  /\ \A i \in 1..Len(sheets[sheet]) :
                        sheets'[sheet][i] = sheets[sheet][i]
                  /\ \A c \in DOMAIN last :
                        last[c] = IF c \in DOMAIN record THEN record[c] ELSE ""
                  /\ \A other \in SheetNames \ {sheet} :
                        sheets'[other] = sheets[other]
       /\ \A r \in Reqs :
            Writes(r)
            => /\ sheets[loc[r].sheet][loc[r].row_index][1] = arg[r].id
               /\ Len(sheets'[loc[r].sheet]) = Len(sheets[loc[r].sheet])
               /\ \A i \in 1..Len(sheets[loc[r].sheet]) :
                     i # loc[r].row_index
                     => sheets'[loc[r].sheet][i] = sheets[loc[r].sheet][i]
       /\ \A sheet \in SheetNames :
            Len(sheets'[sheet]) =
              1 + Cardinality({r \in Reqs : op'[r] = "create:" \o sheet})]_vars

(* two creates have appended to the users sheet and an update of the first    *)
(* row has been written, the second row being as it was created               *)
C17_Witness ==
    \E r, q, u \in Reqs :
        /\ op[r] = "create:users" /\ op[q] = "create:users" /\ r # q
        /\ op[u] = "update:users" /\ pc[u] = "done" /\ ret[u].kind = "ok"
        /\ Len(sheets["users"]) = 3
        /\ sheets["users"][2][4] = "B"
        /\ sheets["users"][3] = SerializeRow(USERS_HEADERS, arg[q])

----------------------------------------------------------------------------
(* Properties of the scheduling of spreadsheet calls (SpecAuth) *)

(* request r is between two of its spreadsheet calls, or inside one *)
InSheetCall(r) == pc[r] \in {"register_create", "update_find", "update_read",
                             "update_write"}

(* C18 as stated: while a request of a domain service is at a spreadsheet     *)
(* call, every other request that has not finished can take its next step on *)
(* the event loop.                                                            *)
C18_CallsOffLoop ==
    \A r, q \in Reqs :
        (r # q /\ InSheetCall(r) /\ pc[q] # "done") => LoopFree(q)

----------------------------------------------------------------------------
(* All operations of the three domain services on one spreadsheet *)

(* the requests: one good and one failing of each kind *)
ServedLogins == [email : {"a@x.com"}, password : {"longenough", "  short  "}]
ServedRegisters ==
    [email : Emails, password : {"longenough"}, full_name : {"A"}, role : {"parent"}]

(* at most MaxChildReqs requests are served in one behaviour *)
NextServices ==
    \E r \in 1..MaxChildReqs :
        \/ \E payload \in ServedRegisters : RegisterStart(r, payload)
        \/ RegisterCreate(r)
        \/ \E payload \in ServedLogins : LoginStart(r, payload)
        \/ UpdateFind(r)
        \/ UpdateRead(r)
        \/ UpdateWrite(r)
        \/ CreateChildProfile(r, GoodChild)
        \/ CreateChildStart(r, GoodChild, "user-1")
        \/ KeywordResponse(r)
        \/ RepoCreateChild(r)
        \/ RepoLinkUserChild(r)
        \/ \E payload \in SessionPayloads(ChildIdArgs) : CreateSessionStart(r, payload)
        \/ PromptResponse(r)
        \/ RepoCreateSession(r)
        \/ ListChildrenStart(r, "user-1")
        \/ ListFind(r)
        \/ ListRead(r)
        \/ GetChildForUser(r, Uuid4(1), "user-1")
        \/ GetLatestSession(r, "user-1", Uuid4(1))

SpecServices == Init /\ [][NextServices]_vars

----------------------------------------------------------------------------
(* Properties of the services' writes (SpecServices) *)

(* the sheets no service rewrites *)
AppendOnly == {"children", "sessions", "user_children"}

(* C19: in every step of a domain service no sheet loses a row; every row of  *)
(* the children, sessions and user_children sheets stays as it is; and a      *)
(* users row changes only in the write step of a login.                       *)
C19_AppendOnly ==
    [][/\ \A sheet \in SheetNames : Len(sheets'[sheet]) >= Len(sheets[sheet])
       /\ \A sheet \in AppendOnly :
            \A i \in 1..Len(sheets[sheet]) : sheets'[sheet][i] = sheets[sheet][i]
       /\ \A i \in 1..Len(sheets["users"]) :
            sheets'["users"][i] # sheets["users"][i]
            => \E r \in Reqs :
                 /\ op[r] = "login" /\ pc[r] = "update_write" /\ pc'[r] = "done"
                 /\ loc[r].row_index = i]_vars

(* a login has rewritten a users row *)
C19_Witness ==
    \E r \in Reqs :
        /\ IsLogin(r) /\ pc[r] = "done" /\ ret[r].kind = "ok"
        /\ LET row == Stored("users", sheets["users"][loc[r].row_index])
           IN row["last_login_at"] # row["created_at"]

----------------------------------------------------------------------------
(* KeywordProcessor.process called with a generator that answers any text *)

(* the requests: a raw text, a blank one and an empty one *)
ProcessRequests ==
    [label : {"triggers", "interests"}, raw_text : {"loud noises", " ", ""}]

(* the generator's answers: empty, only blank fragments, repeats, one token   *)
(* with a space, 7 tokens, 8 tokens, and 10 fragments of 7 distinct tokens    *)
KeywordAnswers ==
    {"", ",, ,", "Loud Noise, crowds,loud noise", "a b", "a,b,c,d,e,f,g",
     "a,b,c,d,e,f,g,h", "a,b,c,d,e,f,g,A, a ,G"}

(* lines 71-72 on an answer: _parse_response, format_keywords *)
ProcessAnswerResult(response) ==
    IF response = ""
    THEN Raised("ValidationError", "Keyword generation returned empty response.")
    ELSE LET tokens == ParseResponse(response)
         IN IF ~FormatKeywordsOk(tokens)
            THEN Raised("ValidationError", "keywords must contain between 1 and 7 keywords.")
            ELSE Ok(FormatKeywords(tokens))

AnswerTable == [response \in KeywordAnswers |-> ProcessAnswerResult(response)]

(* lines 63-69: the blank check, then the prompt goes to the generator *)
ProcessStart(r, request) ==
    /\ CanStartCall(r)
    /\ op' = [op EXCEPT ![r] = "process"]
    /\ arg' = [arg EXCEPT ![r] = request]
    /\ loc' = [loc EXCEPT ![r] = [response |-> None]]
    /\ IF ~RawTextOk(request.raw_text)
       THEN Finish(r, Raised("ValidationError", "raw text cannot be empty."))
       ELSE /\ pc' = [pc EXCEPT ![r] = "generate"]
            /\ UNCHANGED ret
    /\ UNCHANGED <<sheets, clock, uuids, loop>>

(* lines 70-72: the generator raises or answers; the answer is parsed and     *)
(* formatted                                                                  *)
ProcessAnswer(r) ==
    /\ pc[r] = "generate" /\ op[r] = "process"
    /\ \/ /\ Finish(r, Raised("ExternalServiceError", "Failed to generate keywords."))
          /\ UNCHANGED loc
       \/ \E response \in KeywordAnswers :
            /\ loc' = [loc EXCEPT ![r] = [response |-> Some(response)]]
            /\ Finish(r, AnswerTable[response])
    /\ UNCHANGED <<sheets, clock, uuids, loop, op, arg>>

NextKeywords ==
    \E r \in Reqs :
        \/ \E request \in ProcessRequests : ProcessStart(r, request)
        \/ ProcessAnswer(r)

SpecKeywords == Init /\ [][NextKeywords]_vars

----------------------------------------------------------------------------
(* Properties of keyword processing (SpecKeywords) *)

(* the distinct non-empty tokens the fragments of an answer normalize to *)
DistinctTokens(response) ==
    {ReplaceSpaces(Lower(Strip(fragment))) :
        fragment \in Range(Split(response, ","))} \ {""}

(* request r is a process call that got an answer *)
Answered(r) == op[r] = "process" /\ pc[r] = "done" /\ loc[r].response # None

(* C20: a process call whose answer normalizes to 0 or to more than 7         *)
(* distinct tokens ends in ValidationError; one whose answer normalizes to 1  *)
(* to 7 distinct tokens returns that many keywords, however many fragments    *)
(* the answer has.                                                            *)
C20_CountAfterDedup ==
    \A r \in Reqs :
        Answered(r)
        => LET n == Cardinality(DistinctTokens(loc[r].response[1]))
           IN IF n = 0 \/ n > 7
              THEN ret[r].kind = "error" /\ ret[r].error = "ValidationError"
              ELSE /\ ret[r].kind = "ok"
                   /\ Len(Split(ret[r].value, ",")) = n

(* an answer of more than 7 fragments has succeeded and an answer of more     *)
(* than 7 distinct tokens has failed                                          *)
C20_Witness ==
    \E r, q \in Reqs :
        /\ Answered(r) /\ ret[r].kind = "ok"
        /\ Len(Split(loc[r].response[1], ",")) > 7
        /\ Answered(q) /\ ret[q].kind = "error"
        /\ Cardinality(DistinctTokens(loc[q].response[1])) > 7

----------------------------------------------------------------------------
(* format_keywords applied to a token list, then to the fragments of its     *)
(* result                                                                     *)

MaxTokens == 2

(* the tokens: plain, upper case, padded with an inner space, empty, blank,   *)
(* and two that hold the delimiter                                            *)
TokenChoices == {"a", "B", " a b ", "", " ", "c", "a,a", "b,"}

RECURSIVE TokenListsOf(_)
TokenListsOf(n) ==
    IF n = 0 THEN {<<>>}
    ELSE LET shorter == TokenListsOf(n - 1)
         IN shorter \cup {Append(tokens, token) :
                              tokens \in shorter, token \in TokenChoices}

(* the token lists format_keywords is given: all short ones, and lists at    *)
(* the upper limit of the count                                               *)
TokenLists ==
    TokenListsOf(MaxTokens)
      \cup {<<"a", "b", "c", "d", "e", "f", "g">>,
            <<"a", "b", "c", "d", "e", "f", "g", "h">>,
            <<"a", "b", "c", "d", "e", "f", "g,h">>}

(* format_keywords(tokens): ValidationError, or the joined string *)
FormatKeywordsResult(tokens) ==
    IF ~FormatKeywordsOk(tokens)
    THEN Raised("ValidationError", "keywords must contain between 1 and 7 keywords.")
    ELSE Ok(FormatKeywords(tokens))

(* a behaviour holds one call of the function under study *)
CanStartOnly(r) == CanStart(r) /\ r = 1

(* format_keywords(tokens) *)
FormatStart(r, tokens) ==
    /\ CanStartOnly(r)
    /\ op' = [op EXCEPT ![r] = "format_keywords"]
    /\ arg' = [arg EXCEPT ![r] = [tokens |-> tokens]]
    /\ LET first == FormatKeywordsResult(tokens)
       IN /\ loc' = [loc EXCEPT ![r] = [first |-> first]]
          /\ IF first.kind = "error"
             THEN Finish(r, first)
             ELSE /\ pc' = [pc EXCEPT ![r] = "format_again"]
                  /\ UNCHANGED ret
    /\ UNCHANGED <<sheets, clock, uuids, loop>>

(* format_keywords(s.split(",")) on the result s of the first call *)
FormatAgain(r) ==
    /\ pc[r] = "format_again" /\ op[r] = "format_keywords"
    /\ Finish(r, FormatKeywordsResult(Split(loc[r].first.value, KEYWORD_DELIMITER)))
    /\ UNCHANGED <<sheets, clock, uuids, loop, op, arg, loc>>

NextFormat ==
    \E r \in Reqs :
        \/ CanStartOnly(r) /\ \E tokens \in TokenLists : FormatStart(r, tokens)
        \/ FormatAgain(r)

SpecFormat == Init /\ [][NextFormat]_vars

----------------------------------------------------------------------------
(* Properties of format_keywords (SpecFormat) *)

(* request r has formatted a token list and then the fragments of the result *)
Reformatted(r) ==
    op[r] = "format_keywords" /\ pc[r] = "done" /\ loc[r].first.kind = "ok"

----------------------------------------------------------------------------
(* Properties of the keyword fields of children rows (SpecServices) *)

(* the columns of the children sheet that hold generated keywords *)
KeywordColumns ==
    {i \in 1..Len(CHILDREN_HEADERS) :
        CHILDREN_HEADERS[i] \in {"triggers", "interests", "target_skills"}}

(* token is not empty and holds neither a space nor an upper-case letter *)
CleanToken(token) ==
    /\ token # ""
    /\ \A i \in 1..Len(token) :
          /\ Char(token, i) # " "
          /\ \A j \in 1..Len(UpperChars) : Char(token, i) # Char(UpperChars, j)

(* text is 1 to 7 pairwise distinct clean tokens joined by commas *)
KeywordList(text) ==
    LET tokens == Split(text, ",")
    IN /\ 1 <= Len(tokens) /\ Len(tokens) <= 7
       /\ \A i \in 1..Len(tokens) : CleanToken(tokens[i])
       /\ \A i, j \in 1..Len(tokens) : tokens[i] = tokens[j] => i = j

(* C22: in every reachable state, the triggers, interests and target_skills   *)
(* cells of every children row are a comma-joined list of 1 to 7 pairwise     *)
(* distinct tokens, each non-empty, lower case and without a space.           *)
C22_KeywordFields ==
    \A i \in DataRows(sheets["children"]) :
        \A col \in KeywordColumns : KeywordList(sheets["children"][i][col])

(* create child has stored a row whose keywords come from an answer with      *)
(* upper case, inner spaces and a repeated token                              *)
C22_Witness ==
    \E i \in DataRows(sheets["children"]) :
        /\ sheets["children"][i][7] = "loud_noise,crowds"
        /\ sheets["children"][i][11] = "sharing,turn_taking"

----------------------------------------------------------------------------
(* The environment validator (schemas/sessions.py) *)

LOCATION_VALUES == {"loc_indoor", "loc_outdoor"}
NOISE_VALUES == {"noise_quiet", "noise_moderate", "noise_noisy"}
CROWD_VALUES == {"crowd_alone", "crowd_few", "crowd_many"}

(* line 28: the stripped fragments of value that are not blank *)
EnvironmentTokens(value) ==
    LET fragments == SelectSeq(Split(value, ","), LAMBDA token : Strip(token) # "")
    IN [i \in 1..Len(fragments) |-> Strip(fragments[i])]

(* three tokens, one of each kind, in any order *)
NormalizeEnvironmentAnyOrder(value) ==
    LET tokens == EnvironmentTokens(value)
    IN IF Len(tokens) # 3
       THEN Raised("ValueError", "Environment must contain exactly three tokens.")
       ELSE IF \A kind \in {LOCATION_VALUES, NOISE_VALUES, CROWD_VALUES} :
                  \E i \in 1..3 : tokens[i] \in kind
            THEN Ok(Join(tokens, ","))
            ELSE Raised("ValueError", "Invalid token")

(* _normalize_environment: ValueError, or the three tokens joined by commas *)
NormalizeEnvironment(value) ==
    LET tokens == EnvironmentTokens(value)
    IN IF Len(tokens) # 3
       THEN Raised("ValueError", "Environment must contain exactly three tokens.")
       ELSE IF tokens[1] \notin LOCATION_VALUES
       THEN Raised("ValueError", "Invalid location token")
       ELSE IF tokens[2] \notin NOISE_VALUES
       THEN Raised("ValueError", "Invalid noise token")
       ELSE IF tokens[3] \notin CROWD_VALUES
       THEN Raised("ValueError", "Invalid crowd token")
       ELSE IF \E i \in 1..3 : \E j \in 1..Len(tokens[i]) : Char(tokens[i], j) = " "
       THEN Raised("ValueError", "Environment tokens must not contain spaces.")
       ELSE Ok(Join(tokens, ","))

MaxFragments == 4

(* the fragments an environment string is made of: tokens of each kind, an    *)
(* empty one, a padded one, one with an inner space                           *)
FragmentChoices ==
    {"loc_indoor", "noise_quiet", "crowd_few", "", " noise_noisy ", "loc_ outdoor"}

RECURSIVE FragmentListsOf(_)
FragmentListsOf(n) ==
    IF n = 0 THEN {<<>>}
    ELSE LET shorter == FragmentListsOf(n - 1)
         IN shorter \cup {Append(fragments, fragment) :
                              fragments \in shorter, fragment \in FragmentChoices}

(* the strings of the form location,noise,crowd *)
ExactEnvironments ==
    {Join(<<location, noise, crowd>>, ",") :
        location \in LOCATION_VALUES, noise \in NOISE_VALUES, crowd \in CROWD_VALUES}

(* the environment strings a request may carry *)
EnvironmentValues ==
    {Join(fragments, ",") : fragments \in FragmentListsOf(MaxFragments)}
      \cup ExactEnvironments
      \cup {"Loc_indoor,noise_quiet,crowd_few", "loc_indoor;noise_quiet;crowd_few",
            "loc_indoor,noise_quiet,crowd_few,crowd_many,loc_indoor,noise_quiet"}

(* SessionCreate.validate_environment on the environment field of a payload *)
ValidateEnvironment(r, value) ==
    /\ CanStartOnly(r)
    /\ op' = [op EXCEPT ![r] = "validate_environment"]
    /\ arg' = [arg EXCEPT ![r] = [value |-> value]]
    /\ Finish(r, NormalizeEnvironment(value))
    /\ UNCHANGED <<sheets, clock, uuids, loop, loc>>

NextEnvironment ==
    \E r \in Reqs :
        CanStartOnly(r) /\ \E value \in EnvironmentValues : ValidateEnvironment(r, value)

SpecEnvironment == Init /\ [][NextEnvironment]_vars

----------------------------------------------------------------------------
(* Properties of the environment validator (SpecEnvironment) *)

Validated(r) == op[r] = "validate_environment" /\ pc[r] = "done"

(* text without its leading and trailing spaces, found by position *)
Trimmed(text) ==
    LET inked == {i \in 1..Len(text) : Char(text, i) # " "}
    IN IF inked = {} THEN ""
       ELSE SubSeq(text, CHOOSE i \in inked : \A j \in inked : i <= j,
                         CHOOSE i \in inked : \A j \in inked : i >= j)

(* the fragments of value between commas, trimmed, without the blank ones *)
KeptFragments(value) ==
    LET fragments == Split(value, ",")
        trimmed == [i \in 1..Len(fragments) |-> Trimmed(fragments[i])]
    IN SelectSeq(trimmed, LAMBDA fragment : fragment # "")

(* C23 as stated: the validator accepts a string exactly when it is one       *)
(* location token, one noise token and one crowd token joined by commas in    *)
(* that order.                                                                *)
C23_ExactOnly ==
    \A r \in Reqs :
        Validated(r) => (ret[r].kind = "ok" <=> arg[r].value \in ExactEnvironments)

(* C23 amended: the validator accepts a string exactly when its comma-split   *)
(* fragments, trimmed and without the blank ones, are one location token, one *)
(* noise token and one crowd token in that order, and it then returns these   *)
(* three joined by commas; every other string is rejected with ValueError.    *)
C23_NormalizedForm ==
    \A r \in Reqs :
        Validated(r)
        => LET kept == KeptFragments(arg[r].value)
               form == Join(kept, ",")
           IN IF Len(kept) = 3 /\ form \in ExactEnvironments
              THEN ret[r] = Ok(form)
              ELSE ret[r].kind = "error" /\ ret[r].error = "ValueError"

(* a string with an empty fragment and a padded one was accepted as the three *)
(* tokens it holds                                                            *)
C23_Witness ==
    \E r \in Reqs :
        /\ Validated(r)
        /\ arg[r].value = "loc_indoor,, noise_noisy ,crowd_few"
        /\ ret[r] = Ok("loc_indoor,noise_noisy,crowd_few")

----------------------------------------------------------------------------
(* The record codec on values of any type (sheets_repo.py lines 272-288) *)

(* the values a record may hold: str, int, None, datetime (the UTC instant in *)
(* ticks, with its tzinfo: none, UTC, or one hour east)                       *)
StrValue(text) == [type |-> "str", text |-> text, n |-> 0]
IntValue(n) == [type |-> "int", text |-> "", n |-> n]
NoneValue == [type |-> "None", text |-> "", n |-> 0]
Datetime(ticks, tzinfo) == [type |-> "datetime", text |-> tzinfo, n |-> ticks]

Pad6(n) == SubSeq("000000", 1, 6 - Len(ToString(n))) \o ToString(n)

UtcOffset(tzinfo) == IF tzinfo = "+01:00" THEN 3600 ELSE 0

(* datetime.isoformat(): local time, microseconds when not zero, the offset   *)
(* when the value is aware                                                    *)
Isoformat(value) ==
    LET s == value.n \div TicksPerSec + UtcOffset(value.text)
        microsecond == ((value.n % TicksPerSec) * 1000000) \div TicksPerSec
    IN "2025-01-01T" \o Pad2((s \div 3600) % 24) \o ":" \o Pad2((s \div 60) % 60)
         \o ":" \o Pad2(s % 60)
         \o (IF microsecond # 0 THEN "." \o Pad6(microsecond) ELSE "")
         \o (IF value.text = "naive" THEN "" ELSE value.text)

(* lines 278-281: the cell of one value *)
CellText(value) ==
    CASE value.type = "datetime" -> Isoformat(value)
      [] value.type = "None" -> ""
      [] value.type = "int" -> ToString(value.n)
      [] value.type = "str" -> value.text

(* a row holding only the cells of the headers the record has *)
SerializeValuesCompact(headers, record) ==
    LET present == SelectSeq(headers, LAMBDA header : header \in DOMAIN record)
    IN [i \in 1..Len(present) |-> CellText(record[present[i]])]

(* _serialize_row on a record of such values: one cell per header, "" for a   *)
(* header the record lacks (SerializeRow is this function on str values)      *)
SerializeValues(headers, record) ==
    [i \in 1..Len(headers) |->
        IF headers[i] \in DOMAIN record THEN CellText(record[headers[i]]) ELSE ""]

MaxKeys == 3

(* the values of a record: texts, an int, None, and datetimes with a fraction *)
(* of a second, without tzinfo, and with an offset                            *)
ValueChoices ==
    {StrValue("Kai"), StrValue(" a,b "), IntValue(7), NoneValue,
     Datetime(1, "+00:00"), Datetime(2 * TicksPerSec, "naive"),
     Datetime(3 * TicksPerSec, "+01:00")}

CodecHeaders == {Headers(name) : name \in SheetNames}

(* the records over the first columns of a column list *)
CodecRecords(headers) ==
    UNION {[keys -> ValueChoices] :
              keys \in SUBSET {headers[i] : i \in 1..MaxKeys \cap 1..Len(headers)}}

(* _serialize_row(headers, record) *)
SerializeCall(r, headers, record) ==
    /\ CanStartOnly(r)
    /\ op' = [op EXCEPT ![r] = "codec"]
    /\ arg' = [arg EXCEPT ![r] = [headers |-> headers, record |-> record]]
    /\ loc' = [loc EXCEPT ![r] = [row |-> SerializeValues(headers, record)]]
    /\ pc' = [pc EXCEPT ![r] = "deserialize"]
    /\ UNCHANGED <<sheets, clock, uuids, loop, ret>>

(* _deserialize_row(headers, row) on the row just serialized *)
DeserializeCall(r) ==
    /\ pc[r] = "deserialize" /\ op[r] = "codec"
    /\ Finish(r, Ok(DeserializeRow(arg[r].headers, loc[r].row)))
    /\ UNCHANGED <<sheets, clock, uuids, loop, op, arg, loc>>

NextCodec ==
    \E r \in Reqs :
        \/ CanStartOnly(r) /\ \E headers \in CodecHeaders :
              \E record \in CodecRecords(headers) : SerializeCall(r, headers, record)
        \/ DeserializeCall(r)

SpecCodec == Init /\ [][NextCodec]_vars

----------------------------------------------------------------------------
(* Properties of the record codec (SpecCodec) *)

Serialized(r) == op[r] = "codec" /\ pc[r] \in {"deserialize", "done"}
Decoded(r) == op[r] = "codec" /\ pc[r] = "done"

(* text stands for value: the same text for a str, the decimal digits of an   *)
(* int, nothing for None, and for a datetime a text from_isoformat reads back *)
(* as the same instant                                                        *)
StandsFor(text, value) ==
    CASE value.type = "str" -> text = value.text
      [] value.type = "int" -> text # "" /\ IntOf(text) = value.n
      [] value.type = "None" -> text = ""
      [] value.type = "datetime" -> text # "" /\ FromIsoformat(text) = value.n

(* C24: deserializing the serialized row of a record against the same column  *)
(* list gives a record with one string per column: for a column the record    *)
(* holds, a string that stands for the record's value, and for any other      *)
(* column the empty string.                                                   *)
C24_RoundTrip ==
    \A r \in Reqs :
        Decoded(r)
        => LET headers == arg[r].headers
               record == arg[r].record
               decoded == ret[r].value
           IN /\ DOMAIN decoded = Range(headers)
              /\ \A header \in Range(headers) :
                    IF header \in DOMAIN record
                    THEN StandsFor(decoded[header], record[header])
                    ELSE decoded[header] = ""

(* a record that lacks its first column and holds an int and a datetime with  *)
(* an offset went through the round trip                                      *)
C24_Witness ==
    \E r \in Reqs :
        /\ Decoded(r)
        /\ arg[r].headers[1] \notin DOMAIN arg[r].record
        /\ \E h1, h2 \in DOMAIN arg[r].record :
              /\ arg[r].record[h1].type = "int"
              /\ arg[r].record[h2] = Datetime(3 * TicksPerSec, "+01:00")

----------------------------------------------------------------------------
(* Properties of the blank check of keyword generation (SpecKeywords) *)

(* request r is a process call whose raw text is empty or only whitespace *)
BlankProcess(r) == op[r] = "process" /\ Strip(arg[r].raw_text) = ""

(* C26: a process call whose raw text is empty or only whitespace is never    *)
(* waiting for the generator and never holds an answer of it: it has ended in *)
(* ValidationError in the step that started it.                               *)
C26_BlankBeforeBackend ==
    \A r \in Reqs :
        BlankProcess(r)
        => /\ pc[r] = "done"
           /\ loc[r].response = None
           /\ ret[r].kind = "error" /\ ret[r].error = "ValidationError"

(* a call with a blank raw text has ended while a call with a raw text is at  *)
(* the generator                                                              *)
C26_Witness ==
    \E r, q \in Reqs :
        /\ BlankProcess(r) /\ pc[r] = "done" /\ arg[r].raw_text # ""
        /\ op[q] = "process" /\ pc[q] = "generate"

----------------------------------------------------------------------------
(* Properties of register and login on passwords (SpecAuth) *)

(* request r is a register whose password, trimmed, has fewer than 8          *)
(* characters                                                                 *)
ShortRegister(r) == op[r] = "register" /\ Len(Trimmed(arg[r].password)) < 8

(* C27: no step of a register whose trimmed password has fewer than 8         *)
(* characters changes a sheet, and such a register ends in ValidationError,   *)
(* whatever the length of the password as given.                              *)
C27_ShortPassword ==
    [][\A r \in Reqs :
          (ShortRegister(r)' /\ pc'[r] # pc[r])
          => /\ sheets' = sheets
             /\ pc'[r] = "done"
                  => ret'[r].kind = "error" /\ ret'[r].error = "ValidationError"]_vars

(* a register with a password of 9 characters, 5 of them after trimming, for  *)
(* an email not yet registered was rejected by hash_password                  *)
C27_Witness ==
    \E r \in Reqs :
        /\ ShortRegister(r) /\ pc[r] = "done"
        /\ Len(arg[r].password) >= 8
        /\ ret[r] = Raised("ValidationError",
                           "Password must be at least 8 characters long.")

(* C28: a login that starts when a register with the same email and the same  *)
(* password has succeeded is not rejected, whatever whitespace the password   *)
(* begins or ends with.                                                       *)
C28_LoginAfterRegister ==
    [][\A r \in Reqs :
          (/\ pc[r] = "idle" /\ op'[r] = "login"
           /\ \E q \in Reqs :
                 /\ IsRegister(q) /\ pc[q] = "done" /\ ret[q].kind = "ok"
                 /\ arg[q].email = arg'[r].email
                 /\ arg[q].password = arg'[r].password)
          => ~(pc'[r] = "done" /\ ret'[r].kind = "error")]_vars

----------------------------------------------------------------------------
(* Create session requests for a stored child, and the repository's lookup of *)
(* the child's latest session                                                 *)

(* the spreadsheet holds the row of one child, created earlier *)
InitLatest ==
    /\ sheets = [name \in SheetNames |->
                    IF name = "children" THEN Sheet(name, <<StoredChild(1, "Kai")>>)
                    ELSE Sheet(name, <<>>)]
    /\ clock = 0
    /\ uuids = 1
    /\ loop = 0
    /\ op = [r \in Reqs |-> "none"]
    /\ pc = [r \in Reqs |-> "idle"]
    /\ arg = [r \in Reqs |-> <<>>]
    /\ loc = [r \in Reqs |-> <<>>]
    /\ ret = [r \in Reqs |-> NoRet]

(* get_latest_session_for_child(child_id) called once the create requests     *)
(* have been started                                                          *)
LatestSessionCall(r, child_id) ==
    /\ CanStart(r)
    /\ op' = [op EXCEPT ![r] = "latest_session"]
    /\ arg' = [arg EXCEPT ![r] = [child_id |-> child_id]]
    /\ Finish(r, Ok(GetLatestSessionForChild(sheets["sessions"], child_id)))
    /\ UNCHANGED <<sheets, clock, uuids, loop, loc>>

NextLatest ==
    \E r \in Reqs :
        \/ \E payload \in SessionPayloads({Uuid4(1)}) : CreateSessionStart(r, payload)
        \/ PromptResponse(r)
        \/ RepoCreateSession(r)
        \/ LatestSessionCall(r, Uuid4(1))

SpecLatest == InitLatest /\ [][NextLatest]_vars

----------------------------------------------------------------------------
(* Properties of the latest session after create session (SpecLatest) *)

(* the create session requests for the child that have succeeded *)
CreatedFor(child_id) ==
    {q \in Reqs : /\ IsCreateSession(q) /\ pc[q] = "done" /\ ret[q].kind = "ok"
                  /\ arg[q].child_id = child_id}

(* the sessions row a successful create session wrote *)
SessionRowOf(q) ==
    CHOOSE i \in DataRows(sheets["sessions"]) :
        sheets["sessions"][i][1] = loc[q].session_uuid

(* session p was created before session q: at an earlier instant, or at the   *)
(* same instant and written first                                             *)
CreatedBefore(p, q) ==
    \/ loc[p].now < loc[q].now
    \/ loc[p].now = loc[q].now /\ SessionRowOf(p) < SessionRowOf(q)

(* C29: get_latest_session_for_child(c), called when create session requests *)
(* for c have succeeded, returns the session among them that was created      *)
(* last, also when its created_at, cut to the second, equals that of another. *)
C29_LatestCreatedLast ==
    [][\A r \in Reqs :
          (op'[r] = "latest_session" /\ pc[r] = "idle" /\ pc'[r] = "done")
          => LET created == CreatedFor(arg'[r].child_id)
             IN created # {}
                => \E q \in created :
                      /\ \A p \in created \ {q} : CreatedBefore(p, q)
                      /\ ret'[r].value # None
                      /\ ret'[r].value[1]["session_id"] = loc[q].session_uuid]_vars

----------------------------------------------------------------------------
(* The children service serving create child requests alone *)

NextCreateChild ==
    \E r \in Reqs :
        \/ \E payload \in ChildPayloads, user_id \in UserIds :
              CreateChildStart(r, payload, user_id)
        \/ KeywordResponse(r)
        \/ RepoCreateChild(r)
        \/ RepoLinkUserChild(r)

SpecCreateChild == Init /\ [][NextCreateChild]_vars

----------------------------------------------------------------------------
(* Properties of a failed keyword generation in create child                  *)
(* (SpecCreateChild)                                                          *)

(* create child r is in its keyword generations: before the first request,    *)
(* or with a request at the backend                                           *)
InKeywords(r) == pc[r] \in {"idle", "keyword"}

(* create child r is past its keyword generations *)
PastKeywords(r) ==
    /\ IsCreateChild(r)
    /\ \/ pc[r] \in {"create_child", "link_user_child"}
       \/ pc[r] = "done" /\ ret[r].kind = "ok"

(* C30: a create child passes its keyword generations only with three         *)
(* keyword strings, one generated for each request; the step in which one of  *)
(* the generations fails ends the create child in the error of that           *)
(* generation with every sheet unchanged; and a request that has ended takes  *)
(* no further step, so that no later keyword request is made and no children  *)
(* or user_children row is appended for it.                                   *)
C30_KeywordFailure ==
    [][\A r \in Reqs :
          /\ PastKeywords(r)'
                => /\ Len(loc'[r].keywords) = 3
                   /\ \A i \in 1..3 : loc'[r].keywords[i] # ""
          /\ (IsCreateChild(r)' /\ InKeywords(r) /\ pc'[r] = "done")
                => /\ ret'[r].kind = "error"
                   /\ ret'[r].error \in {"ValidationError", "ExternalServiceError"}
                   /\ sheets' = sheets
          /\ pc[r] = "done"
                => pc'[r] = "done" /\ ret'[r] = ret[r] /\ loc'[r] = loc[r]]_vars

(* a create child failed at the backend in its second generation, one failed  *)
(* on a blank raw text, and no row was written                                *)
C30_Witness ==
    /\ \E r \in Reqs :
          /\ IsCreateChild(r) /\ pc[r] = "done"
          /\ ret[r].kind = "error" /\ ret[r].error = "ExternalServiceError"
          /\ Len(loc[r].keywords) = 1
    /\ \E r \in Reqs :
          /\ IsCreateChild(r) /\ pc[r] = "done"
          /\ ret[r] = Raised("ValidationError", "raw text cannot be empty.")
    /\ Len(sheets["children"]) = 1
    /\ Len(sheets["user_children"]) = 1

====
